---- MODULE Spec2Model ----
(***************************************************************************)
(* Model of the Odin symbol index of odin_plugin.py: the tolerant parser,  *)
(* the OdinIndex stores and their lock, the struct field resolver and the  *)
(* background project index pass.                                          *)
(*                                                                         *)
(* Text is modelled at the level of lexical tokens: a file's text is a     *)
(* sequence of lines, a line is a sequence of tokens (strings), and every  *)
(* "string" the code cuts and compares (a type string, a path, a           *)
(* signature) is the sequence of its tokens.  Paths keep their separator   *)
(* tokens, so that _normalize_path, dirname, join and normpath are         *)
(* computed and not assumed.                                               *)
(***************************************************************************)
EXTENDS Integers, Sequences, FiniteSets, TLC

(* ---------------------------------------------------------------------- *)
(* Sequence helpers                                                        *)
(* ---------------------------------------------------------------------- *)

Range(s) == {s[i] : i \in DOMAIN s}

Drop(s, n) == SubSeq(s, n + 1, Len(s))

Take(s, n) == SubSeq(s, 1, n)

\* index of the first occurrence of tok in s, 0 when there is none (str.find)
FirstIndex(s, tok) ==
    IF \E i \in DOMAIN s : s[i] = tok
    THEN CHOOSE i \in DOMAIN s : s[i] = tok /\ \A j \in 1..(i - 1) : s[j] # tok
    ELSE 0

\* index of the last occurrence of tok in s, 0 when there is none (str.rfind)
LastIndex(s, tok) ==
    IF \E i \in DOMAIN s : s[i] = tok
    THEN CHOOSE i \in DOMAIN s : s[i] = tok /\ \A j \in (i + 1)..Len(s) : s[j] # tok
    ELSE 0

CountTok(s, tok) == Cardinality({i \in DOMAIN s : s[i] = tok})

IsPrefix(p, s) == Len(p) <= Len(s) /\ Take(s, Len(p)) = p

Openers == {"(", "[", "{"}

Closers == {")", "]", "}"}

\* tokens that are not identifiers (what \w+ does not match)
Punct ==
    Openers \cup Closers \cup
    {",", ":", "::", ":=", "=", "->", ".", "^", "@", "/", "\\", "\"", "//", "/*", "*/", "#"}

IsWord(tok) == tok \notin Punct

(* ---------------------------------------------------------------------- *)
(* Paths                                                                   *)
(* ---------------------------------------------------------------------- *)

\* _normalize_path: every backslash becomes a slash
_normalize_path(p) == [i \in DOMAIN p |-> IF p[i] = "\\" THEN "/" ELSE p[i]]

\* os.path.dirname (posix): the text before the last slash
dirname(p) ==
    LET k == LastIndex(p, "/") IN
    IF k = 0 THEN <<>> ELSE IF k = 1 THEN <<"/">> ELSE Take(p, k - 1)

\* os.path.join (posix) of two parts
join(a, b) ==
    IF b # <<>> /\ b[1] = "/" THEN b
    ELSE IF a = <<>> THEN b
    ELSE IF a[Len(a)] = "/" THEN a \o b
    ELSE a \o <<"/">> \o b

\* the components of a relative path, separators dropped
RECURSIVE Components(_)
Components(p) ==
    IF p = <<>> THEN <<>>
    ELSE IF p[1] = "/" THEN Components(Tail(p))
    ELSE <<p[1]>> \o Components(Tail(p))

\* os.path.normpath on the components: "." dropped, ".." pops a component
RECURSIVE NormComponents(_, _)
NormComponents(cs, acc) ==
    IF cs = <<>> THEN acc
    ELSE IF cs[1] = "." THEN NormComponents(Tail(cs), acc)
    ELSE IF cs[1] = ".." /\ acc # <<>> /\ acc[Len(acc)] # ".."
         THEN NormComponents(Tail(cs), Take(acc, Len(acc) - 1))
    ELSE NormComponents(Tail(cs), Append(acc, cs[1]))

RECURSIVE JoinComponents(_)
JoinComponents(cs) ==
    IF cs = <<>> THEN <<>>
    ELSE IF Len(cs) = 1 THEN <<cs[1]>>
    ELSE <<cs[1], "/">> \o JoinComponents(Tail(cs))

normpath(p) ==
    LET cs == NormComponents(Components(p), <<>>) IN
    IF cs = <<>> THEN <<".">> ELSE JoinComponents(cs)

(* ---------------------------------------------------------------------- *)
(* Data structures                                                         *)
(* ---------------------------------------------------------------------- *)

NoFields == [n \in {} |-> <<>>]

\* Symbol.__init__ : every keyword left out takes its default
Symbol(name, kind, file, line, col, package_dir, package_name, is_private) ==
    [name |-> name, kind |-> kind, signature |-> <<>>, file |-> file,
     line |-> line, col |-> col, package_dir |-> package_dir,
     package_name |-> package_name, fields |-> NoFields, variants |-> <<>>,
     params |-> <<>>, return_type |-> <<>>, is_private |-> is_private,
     underlying_enum |-> "", using_types |-> <<>>]

\* ImportInfo.__init__
ImportInfo(alias, collection, rel_path) ==
    [alias |-> alias, collection |-> collection, rel_path |-> rel_path,
     resolved_dir |-> <<>>]

(* ---------------------------------------------------------------------- *)
(* Utility                                                                 *)
(* ---------------------------------------------------------------------- *)

\* a dict assignment d[k] = v
DictSet(d, k, v) == [x \in (DOMAIN d) \cup {k} |-> IF x = k THEN v ELSE d[x]]

\* dict.update: every key of e is written over d
DictUpdate(d, e) ==
    [x \in (DOMAIN d) \cup (DOMAIN e) |-> IF x \in DOMAIN e THEN e[x] ELSE d[x]]

\* del d[k] / d.pop(k, None)
DictDel(d, k) == [x \in (DOMAIN d) \ {k} |-> d[x]]

\* the text of a token sequence as one string (an identifier is its own text)
RECURSIVE TokStr(_)
TokStr(toks) ==
    IF toks = <<>> THEN ""
    ELSE IF Len(toks) = 1 THEN toks[1]
    ELSE toks[1] \o " " \o TokStr(Tail(toks))

DepthStep(tok) == IF tok \in Openers THEN 1 ELSE IF tok \in Closers THEN -1 ELSE 0

\* _split_balanced: split on sep at bracket depth 0
RECURSIVE SplitBalancedFrom(_, _, _, _, _, _)
SplitBalancedFrom(text, sep, i, depth, current, parts) ==
    IF i > Len(text)
    THEN IF current # <<>> THEN Append(parts, current) ELSE parts
    ELSE LET d == depth + DepthStep(text[i]) IN
         IF text[i] = sep /\ d = 0
         THEN SplitBalancedFrom(text, sep, i + 1, d, <<>>, Append(parts, current))
         ELSE SplitBalancedFrom(text, sep, i + 1, d, Append(current, text[i]), parts)

_split_balanced(text) == SplitBalancedFrom(text, ",", 1, 0, <<>>, <<>>)

\* _find_colon_depth0: index of the first ':' at depth 0, 0 when there is none
RECURSIVE FindColonFrom(_, _, _)
FindColonFrom(text, i, depth) ==
    IF i > Len(text) THEN 0
    ELSE IF text[i] \in Openers THEN FindColonFrom(text, i + 1, depth + 1)
    ELSE IF text[i] \in Closers THEN FindColonFrom(text, i + 1, depth - 1)
    ELSE IF text[i] = ":" /\ depth = 0 THEN i
    ELSE FindColonFrom(text, i + 1, depth)

_find_colon_depth0(text) == FindColonFrom(text, 1, 0)

\* str.split(sep) on tokens, empty pieces dropped (the callers drop them)
RECURSIVE SplitAll(_, _, _)
SplitAll(text, sep, current) ==
    IF text = <<>>
    THEN IF current # <<>> THEN <<current>> ELSE <<>>
    ELSE IF text[1] = sep
    THEN (IF current # <<>> THEN <<current>> ELSE <<>>) \o SplitAll(Tail(text), sep, <<>>)
    ELSE SplitAll(Tail(text), sep, Append(current, text[1]))

\* str.rstrip(','): trailing commas dropped
RECURSIVE RStripComma(_)
RStripComma(line) ==
    IF line # <<>> /\ line[Len(line)] = ","
    THEN RStripComma(Take(line, Len(line) - 1))
    ELSE line

\* ', '.join(...) of token lines
RECURSIVE JoinComma(_)
JoinComma(ls) ==
    IF ls = <<>> THEN <<>>
    ELSE IF Len(ls) = 1 THEN ls[1]
    ELSE ls[1] \o <<",">> \o JoinComma(Tail(ls))

\* the body lines a body parser keeps: non-empty, not a line comment
IsBodyLine(line) == line # <<>> /\ line[1] # "//"

BodyText(body_lines) ==
    LET kept == SelectSeq(body_lines, IsBodyLine) IN
    JoinComma([i \in DOMAIN kept |-> RStripComma(kept[i])])

(* ---------------------------------------------------------------------- *)
(* Parser                                                                  *)
(* ---------------------------------------------------------------------- *)

RECURSIVE SetAll(_, _, _)
SetAll(fields, names, type_str) ==
    IF names = <<>> THEN fields
    ELSE SetAll(DictSet(fields, names[1], type_str), Tail(names), type_str)

\* one comma-separated part of a struct body, folded into
\* [fields, using_types, pending_names]
StructPart(acc, rawpart) ==
    IF rawpart = <<>> THEN acc
    ELSE
    LET is_using == Len(rawpart) > 1 /\ rawpart[1] = "using"
        part == IF is_using THEN Tail(rawpart) ELSE rawpart
        colon_pos == _find_colon_depth0(part)
    IN  IF colon_pos > 0
        THEN LET names_str == Take(part, colon_pos - 1)
                 type_str == Drop(part, colon_pos)
                 pieces == SplitAll(names_str, ",", <<>>)
                 all_names == acc.pending_names \o
                              [i \in DOMAIN pieces |-> TokStr(pieces[i])]
             IN  [fields |-> SetAll(acc.fields, all_names, type_str),
                  using_types |-> IF is_using
                                  THEN Append(acc.using_types, type_str)
                                  ELSE acc.using_types,
                  pending_names |-> <<>>]
        ELSE [acc EXCEPT !.pending_names = Append(@, TokStr(part))]

RECURSIVE StructParts(_, _)
StructParts(acc, parts) ==
    IF parts = <<>> THEN acc
    ELSE StructParts(StructPart(acc, parts[1]), Tail(parts))

\* _parse_struct_fields(body_lines) -> [fields, using_types]
_parse_struct_fields(body_lines) ==
    LET r == StructParts([fields |-> NoFields, using_types |-> <<>>,
                          pending_names |-> <<>>],
                         _split_balanced(BodyText(body_lines)))
    IN  [fields |-> r.fields, using_types |-> r.using_types]

RECURSIVE EnumParts(_, _)
EnumParts(variants, parts) ==
    IF parts = <<>> THEN variants
    ELSE EnumParts(IF parts[1] # <<>> /\ IsWord(parts[1][1])
                   THEN Append(variants, parts[1][1]) ELSE variants,
                   Tail(parts))

\* _parse_enum_variants(body_lines) -> the variant names, in order: of every
\* comma-separated part the leading identifier (^(\w+))
_parse_enum_variants(body_lines) ==
    EnumParts(<<>>, _split_balanced(BodyText(body_lines)))

\* the type of a parameter without its default value: rest up to the first
\* '=' at depth 0 (lines 184-193)
RECURSIVE TypeBeforeDefault(_, _, _)
TypeBeforeDefault(rest, i, depth) ==
    IF i > Len(rest) THEN rest
    ELSE IF rest[i] \in Openers THEN TypeBeforeDefault(rest, i + 1, depth + 1)
    ELSE IF rest[i] \in Closers THEN TypeBeforeDefault(rest, i + 1, depth - 1)
    ELSE IF rest[i] = "=" /\ depth = 0 THEN Take(rest, i - 1)
    ELSE TypeBeforeDefault(rest, i + 1, depth)

\* one comma-separated part of a parameter list, added to params; a
\* parameter is the pair <<name, type_str>>
ProcParam(params, part) ==
    IF part = <<>> THEN params
    ELSE IF FirstIndex(part, ":=") > 0
    THEN Append(params, <<TokStr(Take(part, FirstIndex(part, ":=") - 1)), <<>> >>)
    ELSE LET Fanned(names, type_str) ==
                 params \o [i \in DOMAIN names |-> <<TokStr(names[i]), type_str>>]
             Split(colon_pos) ==
                 IF colon_pos > 0
                 THEN Fanned(SplitAll(Take(part, colon_pos - 1), ",", <<>>),
                            TypeBeforeDefault(Drop(part, colon_pos), 1, 0))
                 ELSE params
         IN  Split(_find_colon_depth0(part))

RECURSIVE ProcParams(_, _)
ProcParams(params, parts) ==
    IF parts = <<>> THEN params
    ELSE ProcParams(ProcParam(params, parts[1]), Tail(parts))

\* _parse_proc_params(param_str) -> [(name, type_str), ...]
_parse_proc_params(param_str) == ProcParams(<<>>, _split_balanced(param_str))

\* proc\s*(?:"[^"]*"\s*)?\( tried at token i: the index of the '(' it ends
\* with, 0 for no match (no other word of the texts ends in "proc")
ProcParenAt(text, i) ==
    IF i + 1 > Len(text) \/ text[i] # "proc" THEN 0
    ELSE IF text[i + 1] = "(" THEN i + 1
    ELSE IF text[i + 1] = "\""
    THEN LET q == FirstIndex(Drop(text, i + 1), "\"") IN
         IF q > 0 /\ i + q + 2 <= Len(text) /\ text[i + q + 2] = "("
         THEN i + q + 2 ELSE 0
    ELSE 0

\* re.search of that pattern: the '(' of the leftmost match, 0 for none
ProcParen(text) ==
    IF \E i \in DOMAIN text : ProcParenAt(text, i) > 0
    THEN ProcParenAt(text, CHOOSE i \in DOMAIN text :
                               /\ ProcParenAt(text, i) > 0
                               /\ \A j \in 1..(i - 1) : ProcParenAt(text, j) = 0)
    ELSE 0

\* the ')' that closes the '(' at paren_start; paren_start itself when none
\* does (lines 217-226)
RECURSIVE ParenEnd(_, _, _, _)
ParenEnd(text, paren_start, i, depth) ==
    IF i > Len(text) THEN paren_start
    ELSE IF text[i] = "(" THEN ParenEnd(text, paren_start, i + 1, depth + 1)
    ELSE IF text[i] = ")"
    THEN IF depth = 1 THEN i ELSE ParenEnd(text, paren_start, i + 1, depth - 1)
    ELSE ParenEnd(text, paren_start, i + 1, depth)

\* the first index >= from of tok in s, 0 when there is none (str.find(t, from))
FirstIndexFrom(s, tok, from) ==
    IF \E i \in from..Len(s) : s[i] = tok
    THEN CHOOSE i \in from..Len(s) : s[i] = tok /\ \A j \in from..(i - 1) : s[j] # tok
    ELSE 0

\* _extract_proc_signature(full_text) -> [sig, params, return_type]
_extract_proc_signature(full_text) ==
    LET Extract(paren_start, paren_end) ==
            LET after_params == Drop(full_text, paren_end)
                ReturnType(ret_str) ==
                    RStripComma(IF FirstIndex(ret_str, "{") > 0
                                THEN Take(ret_str, FirstIndex(ret_str, "{") - 1)
                                ELSE ret_str)
                Sig(brace_pos) ==
                    IF brace_pos > 0 THEN Take(full_text, brace_pos - 1) ELSE full_text
            IN  [sig |-> Sig(FirstIndexFrom(full_text, "{", paren_end)),
                 params |-> _parse_proc_params(
                                SubSeq(full_text, paren_start + 1, paren_end - 1)),
                 return_type |-> IF after_params # <<>> /\ after_params[1] = "->"
                                 THEN ReturnType(Tail(after_params)) ELSE <<>>]
        Matched(paren_start) ==
            IF paren_start = 0
            THEN [sig |-> full_text, params |-> <<>>, return_type |-> <<>>]
            ELSE Extract(paren_start, ParenEnd(full_text, paren_start, paren_start, 0))
    IN  Matched(ProcParen(full_text))

\* re.sub(r'/\*.*?\*/', '', line): every closed block comment is cut out
RECURSIVE RemoveClosedComments(_)
RemoveClosedComments(line) ==
    LET ci == FirstIndex(line, "/*") IN
    IF ci = 0 THEN line
    ELSE LET after == Drop(line, ci)
             ce == FirstIndex(after, "*/")
         IN  IF ce = 0 THEN line
             ELSE Take(line, ci - 1) \o RemoveClosedComments(Drop(after, ce))

\* the parser's state before the first line
ParseInit ==
    [package_name |-> "", symbols |-> <<>>, imports |-> <<>>,
     in_block_comment |-> FALSE, pending_private |-> FALSE,
     collecting |-> "None", collect_sym |-> <<>>, collect_depth |-> 0,
     collect_lines |-> <<>>]

BraceDelta(line) == CountTok(line, "{") - CountTok(line, "}")

\* the block-comment and line-comment stripping of one raw line:
\* [text, in_block_comment, skip]
StripLine(raw_line, in_block_comment) ==
    LET ce == FirstIndex(raw_line, "*/")
        \* the empty line is skipped
        Stripped(s3) ==
            [text |-> s3.text, in_block_comment |-> s3.inb,
             skip |-> s3.skip \/ s3.text = <<>>]
        \* a line comment, unless inside a string
        LineComment(s2) ==
            LET cc == FirstIndex(s2.text, "//") IN
            Stripped(IF ~s2.skip /\ cc > 0
                        /\ CountTok(Take(s2.text, cc - 1), "\"") % 2 = 0
                     THEN [s2 EXCEPT !.text = Take(s2.text, cc - 1)]
                     ELSE s2)
        \* a block comment that starts on this line
        BlockStart(s1) ==
            LET ci == FirstIndex(s1.text, "/*") IN
            LineComment(IF s1.skip \/ ci = 0 THEN s1
                        ELSE IF FirstIndex(Drop(s1.text, ci), "*/") > 0
                        THEN [s1 EXCEPT !.text = RemoveClosedComments(s1.text)]
                        ELSE [text |-> Take(s1.text, ci - 1), inb |-> TRUE,
                              skip |-> Take(s1.text, ci - 1) = <<>>])
    IN  \* a block comment that is open from a line before
        BlockStart(IF in_block_comment
                   THEN IF ce > 0
                        THEN [text |-> Drop(raw_line, ce), inb |-> FALSE,
                              skip |-> Drop(raw_line, ce) = <<>>]
                        ELSE [text |-> <<>>, inb |-> TRUE, skip |-> TRUE]
                   ELSE [text |-> raw_line, inb |-> FALSE, skip |-> FALSE])

\* a struct body that ends with the line after its opening, whatever the
\* depth
CollectStruct_EndsAtOnce(st, stripped) ==
    LET b == _parse_struct_fields(st.collect_lines)
        sym == [st.collect_sym EXCEPT
                   !.fields = b.fields,
                   !.using_types = b.using_types,
                   !.signature = <<st.collect_sym.name, "::", "struct">>]
    IN  [st EXCEPT !.collect_depth = 0,
                   !.symbols = Append(@, sym),
                   !.collecting = "None"]

\* a line while a struct body is collected
CollectStruct(st, stripped) ==
    LET depth == st.collect_depth + BraceDelta(stripped) IN
    IF depth <= 0
    THEN LET b == _parse_struct_fields(st.collect_lines)
             sym == [st.collect_sym EXCEPT
                        !.fields = b.fields,
                        !.using_types = b.using_types,
                        !.signature = <<st.collect_sym.name, "::", "struct">>]
         IN  [st EXCEPT !.collect_depth = depth,
                        !.symbols = Append(@, sym),
                        !.collecting = "None"]
    ELSE [st EXCEPT !.collect_depth = depth,
                    !.collect_lines = Append(@, stripped)]

\* a line while a union body or a skipped initializer block is collected
CollectSkip(st, stripped) ==
    LET depth == st.collect_depth + BraceDelta(stripped) IN
    IF depth <= 0
    THEN [st EXCEPT !.collect_depth = depth,
                    !.symbols = IF st.collect_sym # <<>>
                                THEN Append(@, st.collect_sym) ELSE @,
                    !.collecting = "None"]
    ELSE [st EXCEPT !.collect_depth = depth]

\* a line while an enum body is collected
CollectEnum(st, stripped) ==
    LET depth == st.collect_depth + BraceDelta(stripped) IN
    IF depth <= 0
    THEN [st EXCEPT !.collect_depth = depth,
                    !.symbols = Append(@, [st.collect_sym EXCEPT !.variants =
                                    _parse_enum_variants(st.collect_lines)]),
                    !.collecting = "None"]
    ELSE [st EXCEPT !.collect_depth = depth,
                    !.collect_lines = Append(@, stripped)]

ParenDelta(line) == CountTok(line, "(") - CountTok(line, ")")

\* ' '.join(lines)
RECURSIVE JoinSpace(_)
JoinSpace(ls) == IF ls = <<>> THEN <<>> ELSE ls[1] \o JoinSpace(Tail(ls))

\* a line while the parameter list of a procedure is collected
CollectProc(st, stripped) ==
    LET depth == st.collect_depth + ParenDelta(stripped)
        Emit(e) ==
            [st EXCEPT !.collect_depth = depth,
                       !.collect_lines = Append(@, stripped),
                       !.symbols = Append(@, [st.collect_sym EXCEPT
                                                 !.signature = e.sig,
                                                 !.params = e.params,
                                                 !.return_type = e.return_type]),
                       !.collecting = "None"]
    IN  IF depth <= 0
        THEN Emit(_extract_proc_signature(
                      JoinSpace(Append(st.collect_lines, stripped))))
        ELSE [st EXCEPT !.collect_depth = depth,
                        !.collect_lines = Append(@, stripped)]

\* ^package\s+(\w+)
IsPackageLine(stripped) ==
    Len(stripped) >= 2 /\ stripped[1] = "package" /\ IsWord(stripped[2])

\* ^import\s+(?:(\w+)\s+)?"([^"]+)" : the index of the opening quote, 0 for no match
ImportQuote(stripped) ==
    IF Len(stripped) >= 4 /\ stripped[1] = "import" /\ stripped[2] = "\""
          /\ stripped[3] # "\"" /\ FirstIndex(Drop(stripped, 2), "\"") > 0
    THEN 2
    ELSE IF Len(stripped) >= 5 /\ stripped[1] = "import" /\ IsWord(stripped[2])
          /\ stripped[3] = "\"" /\ stripped[4] # "\""
          /\ FirstIndex(Drop(stripped, 3), "\"") > 0
    THEN 3
    ELSE 0

\* the import statement of a matched line
ParseImport(stripped) ==
    LET Import(given, collection, rel_path) ==
            LET segs == Components(rel_path) IN
            ImportInfo(IF given # "" THEN given
                       ELSE IF segs = <<>> THEN "" ELSE segs[Len(segs)],
                       collection, rel_path)
        Path(given, path) ==
            LET cpos == FirstIndex(path, ":") IN
            Import(given,
                   IF cpos > 0 THEN TokStr(Take(path, cpos - 1)) ELSE "",
                   IF cpos > 0 THEN Drop(path, cpos) ELSE path)
        Quoted(q, rest) ==
            Path(IF q = 3 THEN stripped[2] ELSE "",
                 Take(rest, FirstIndex(rest, "\"") - 1))
    IN  Quoted(ImportQuote(stripped), Drop(stripped, ImportQuote(stripped)))

\* struct\s*(?:\([^)]*\)\s*)?\{ at the start of rest
IsStructRest(rest) ==
    /\ Len(rest) >= 2
    /\ rest[1] = "struct"
    /\ \/ rest[2] = "{"
       \/ /\ rest[2] = "("
          /\ LET close == FirstIndex(rest, ")") IN
             close > 0 /\ Len(rest) > close /\ rest[close + 1] = "{"

\* re.search(r'\{(.*)\}', rest): from the first '{' to the last '}'
BraceBody(rest) ==
    LET o == FirstIndex(rest, "{")
        c == LastIndex(rest, "}")
    IN  IF o > 0 /\ c > o THEN [found |-> TRUE, text |-> SubSeq(rest, o + 1, c - 1)]
        ELSE [found |-> FALSE, text |-> <<>>]

\* (?:#\w+\s+)?proc\s*(?:"[^"]*"\s*)?\( at the start of rest
IsProcRest(rest) ==
    IF Len(rest) >= 2 /\ rest[1] = "#" /\ IsWord(rest[2])
    THEN ProcParenAt(rest, 3) > 0
    ELSE ProcParenAt(rest, 1) > 0

\* enum\s*(?:\w+\s*)?\{ at the start of rest
IsEnumRest(rest) ==
    /\ Len(rest) >= 2
    /\ rest[1] = "enum"
    /\ \/ rest[2] = "{"
       \/ Len(rest) >= 3 /\ IsWord(rest[2]) /\ rest[3] = "{"

\* (?:distinct\s+)?bit_set\[(\w+) at the start of rest: the index of the
\* word in the brackets, 0 for no match
BitSetWord(rest) ==
    IF Len(rest) >= 3 /\ rest[1] = "bit_set" /\ rest[2] = "[" /\ IsWord(rest[3])
    THEN 3
    ELSE IF Len(rest) >= 4 /\ rest[1] = "distinct" /\ rest[2] = "bit_set"
            /\ rest[3] = "[" /\ IsWord(rest[4])
    THEN 4
    ELSE 0

\* a procedure declaration (lines 418-433)
DeclProc(st1, sym, stripped, rest) ==
    LET depth == ParenDelta(rest)
        Emit(e) ==
            [st1 EXCEPT !.symbols =
                Append(@, [sym EXCEPT !.signature = e.sig, !.params = e.params,
                                      !.return_type = e.return_type])]
    IN  IF depth <= 0 THEN Emit(_extract_proc_signature(stripped))
        ELSE [st1 EXCEPT !.collecting = "proc", !.collect_sym = sym,
                         !.collect_depth = depth, !.collect_lines = <<stripped>>]

\* a struct declaration (lines 436-453)
DeclStruct(st1, sym, rest) ==
    LET depth == BraceDelta(rest)
        Emit(b) ==
            [st1 EXCEPT !.symbols =
                Append(@, [sym EXCEPT !.fields = b.fields,
                                      !.using_types = b.using_types,
                                      !.signature = <<sym.name, "::", "struct">>])]
        Body(body) ==
            Emit(IF body.found THEN _parse_struct_fields(<<body.text>>)
                 ELSE [fields |-> NoFields, using_types |-> <<>>])
    IN  IF depth <= 0 THEN Body(BraceBody(rest))
        ELSE [st1 EXCEPT !.collecting = "struct", !.collect_sym = sym,
                         !.collect_depth = depth, !.collect_lines = <<>>]

\* an enum declaration (lines 456-472)
DeclEnum(st1, sym, rest) ==
    LET depth == BraceDelta(rest)
        Body(body) ==
            [st1 EXCEPT !.symbols =
                Append(@, IF body.found
                          THEN [sym EXCEPT !.variants =
                                             _parse_enum_variants(<<body.text>>)]
                          ELSE sym)]
    IN  IF depth <= 0 THEN Body(BraceBody(rest))
        ELSE [st1 EXCEPT !.collecting = "enum", !.collect_sym = sym,
                         !.collect_depth = depth, !.collect_lines = <<>>]

\* a union declaration (lines 475-485)
DeclUnion(st1, sym, rest) ==
    IF BraceDelta(rest) <= 0
    THEN [st1 EXCEPT !.symbols = Append(@, sym)]
    ELSE [st1 EXCEPT !.collecting = "union", !.collect_sym = sym,
                     !.collect_depth = BraceDelta(rest)]

\* NAME :: rest
ParseDecl(st, stripped, raw_line, line_num, filepath, pkg_dir) ==
    LET name == stripped[1]
        rest == Drop(stripped, 2)
        col == FirstIndex(raw_line, name)
        base == Symbol(name, "const", filepath, line_num, col, pkg_dir,
                       st.package_name, st.pending_private)
        st1 == [st EXCEPT !.pending_private = FALSE]
        plain == <<name, "::">> \o rest
    IN
    IF Len(rest) >= 2 /\ rest[1] = "proc" /\ rest[2] = "{"
    THEN [st1 EXCEPT !.symbols =
             Append(@, [base EXCEPT !.kind = "proc_group", !.signature = plain])]
    ELSE IF IsProcRest(rest)
    THEN DeclProc(st1, [base EXCEPT !.kind = "proc"], stripped, rest)
    ELSE IF IsStructRest(rest)
    THEN DeclStruct(st1, [base EXCEPT !.kind = "struct"], rest)
    ELSE IF IsEnumRest(rest)
    THEN DeclEnum(st1, [base EXCEPT !.kind = "enum",
                                    !.signature = <<name, "::">> \o
                                        Take(rest, FirstIndex(rest, "{") - 1)],
                  rest)
    ELSE IF Len(rest) >= 2 /\ rest[1] = "union" /\ rest[2] = "{"
    THEN DeclUnion(st1, [base EXCEPT !.kind = "union",
                                     !.signature = <<name, "::", "union">>], rest)
    ELSE IF BitSetWord(rest) > 0
    THEN [st1 EXCEPT !.symbols =
             Append(@, [base EXCEPT !.kind = "type", !.signature = plain,
                                    !.underlying_enum = rest[BitSetWord(rest)]])]
    ELSE IF Len(rest) >= 2 /\ rest[1] = "distinct"
    THEN [st1 EXCEPT !.symbols =
             Append(@, [base EXCEPT !.kind = "type", !.signature = plain])]
    ELSE IF Len(rest) >= 3 /\ rest[1] = "#" /\ rest[2] = "config" /\ rest[3] = "("
    THEN [st1 EXCEPT !.symbols = Append(@, [base EXCEPT !.signature = plain])]
    ELSE [st1 EXCEPT !.symbols = Append(@, [base EXCEPT !.signature = plain])]

\* NAME := rest that records the variable at once, whatever braces the
\* value leaves open
ParseWalrus_RecordsAtOnce(st, stripped, line_num, filepath, pkg_dir) ==
    [st EXCEPT !.pending_private = FALSE,
               !.symbols = Append(@,
                   [Symbol(stripped[1], "var", filepath, line_num, 0, pkg_dir,
                           st.package_name, st.pending_private)
                       EXCEPT !.signature = <<stripped[1], ":=", "...">>])]

\* NAME := rest (lines 515-534); the symbol is made without a column
ParseWalrus(st, stripped, line_num, filepath, pkg_dir) ==
    LET Var(sym, depth) ==
            IF depth > 0
            THEN [st EXCEPT !.pending_private = FALSE, !.collecting = "skip_block",
                            !.collect_sym = sym, !.collect_depth = depth]
            ELSE [st EXCEPT !.pending_private = FALSE, !.symbols = Append(@, sym)]
    IN  Var([Symbol(stripped[1], "var", filepath, line_num, 0, pkg_dir,
                    st.package_name, st.pending_private)
                EXCEPT !.signature = <<stripped[1], ":=", "...">>],
            BraceDelta(Drop(stripped, 2)))

\* the declaration dispatch without line 536: a line that is no
\* declaration leaves the pending-private flag as it is
Declaration_KeepsFlag(st, stripped, raw_line, line_num, filepath, pkg_dir) ==
    IF Len(stripped) >= 2 /\ IsWord(stripped[1]) /\ stripped[2] = "::"
    THEN ParseDecl(st, stripped, raw_line, line_num, filepath, pkg_dir)
    ELSE IF Len(stripped) >= 2 /\ IsWord(stripped[1]) /\ stripped[2] = ":="
    THEN ParseWalrus(st, stripped, line_num, filepath, pkg_dir)
    ELSE st

\* the declaration on a line that is no package and no import line, after
\* its attribute, if any (lines 396-536)
Declaration(st, stripped, raw_line, line_num, filepath, pkg_dir) ==
    IF Len(stripped) >= 2 /\ IsWord(stripped[1]) /\ stripped[2] = "::"
    THEN ParseDecl(st, stripped, raw_line, line_num, filepath, pkg_dir)
    ELSE IF Len(stripped) >= 2 /\ IsWord(stripped[1]) /\ stripped[2] = ":="
    THEN ParseWalrus(st, stripped, line_num, filepath, pkg_dir)
    ELSE [st EXCEPT !.pending_private = FALSE]

\* ^@(?:\w+|\([^)]*\))\s* on a line that starts with '@': the index of the
\* attribute's last token, 0 for no match
AttrEnd(stripped) ==
    IF Len(stripped) >= 2 /\ IsWord(stripped[2]) THEN 2
    ELSE IF Len(stripped) >= 2 /\ stripped[2] = "(" /\ FirstIndex(stripped, ")") > 0
    THEN FirstIndex(stripped, ")")
    ELSE 0

\* 'private' in the attribute's text (no other word of the texts holds it)
HasPrivate(attr) == \E i \in DOMAIN attr : attr[i] = "private"

\* a line that starts with '@' (lines 386-394), and the declaration after it
Attribute(st, stripped, raw_line, line_num, filepath, pkg_dir) ==
    LET Attr(attr_end) ==
            LET st1 == IF attr_end > 0 /\ HasPrivate(Take(stripped, attr_end))
                       THEN [st EXCEPT !.pending_private = TRUE] ELSE st
            IN  IF attr_end > 0 /\ Drop(stripped, attr_end) = <<>> THEN st1
                ELSE Declaration(st1, Drop(stripped, attr_end), raw_line, line_num,
                                 filepath, pkg_dir)
    IN  Attr(AttrEnd(stripped))

\* one raw line of the file through the parser's loop body
ParseLine(st, raw_line, line_num, filepath, pkg_dir) ==
    LET Statement(st0, stripped) ==
            IF st0.collecting = "struct" THEN CollectStruct(st0, stripped)
            ELSE IF st0.collecting = "enum" THEN CollectEnum(st0, stripped)
            ELSE IF st0.collecting = "proc" THEN CollectProc(st0, stripped)
            ELSE IF st0.collecting \in {"union", "skip_block"}
            THEN CollectSkip(st0, stripped)
            ELSE IF IsPackageLine(stripped)
            THEN [st0 EXCEPT !.package_name = stripped[2]]
            ELSE IF ImportQuote(stripped) > 0
            THEN [st0 EXCEPT !.imports = Append(@, ParseImport(stripped))]
            ELSE IF stripped[1] = "@"
            THEN Attribute(st0, stripped, raw_line, line_num, filepath, pkg_dir)
            ELSE Declaration(st0, stripped, raw_line, line_num, filepath, pkg_dir)
        Line(sl) ==
            IF sl.skip THEN [st EXCEPT !.in_block_comment = sl.in_block_comment]
            ELSE Statement([st EXCEPT !.in_block_comment = sl.in_block_comment],
                           sl.text)
    IN  Line(StripLine(raw_line, st.in_block_comment))

RECURSIVE ParseFrom(_, _, _, _, _)
ParseFrom(st, lines, line_num, filepath, pkg_dir) ==
    IF line_num > Len(lines) THEN st
    ELSE ParseFrom(ParseLine(st, lines[line_num], line_num, filepath, pkg_dir),
                   lines, line_num + 1, filepath, pkg_dir)

\* index_file's content argument: a text that is given, or None
Given(lines) == [given |-> TRUE, lines |-> lines]

None == [given |-> FALSE, lines |-> <<>>]

\* what open()/read() produced: the file's text, or IOError/OSError
ReadOk(lines) == [ok |-> TRUE, lines |-> lines]

ReadFails == [ok |-> FALSE, lines |-> <<>>]

\* parse_file(filepath, content) -> [package_name, symbols, imports];
\* read is what reading filepath produces when content is None
parse_file(filepath, content, read) ==
    IF ~content.given /\ ~read.ok
    THEN [package_name |-> "", symbols |-> <<>>, imports |-> <<>>]
    ELSE LET Parsed(st) ==
                 [package_name |-> st.package_name, symbols |-> st.symbols,
                  imports |-> st.imports]
         IN  Parsed(ParseFrom(ParseInit,
                              IF content.given THEN content.lines ELSE read.lines,
                              1, filepath, _normalize_path(dirname(filepath))))

(* ---------------------------------------------------------------------- *)
(* Index: the stores of OdinIndex as values, its methods as operators     *)
(* ---------------------------------------------------------------------- *)

EmptyDict == [k \in {} |-> <<>>]

\* d.get(k, default)
DictGet(d, k, default) == IF k \in DOMAIN d THEN d[k] ELSE default

\* OdinIndex.__init__ ; odin_roots is an insertion-ordered dict, kept as the
\* sequence of its (folder, root) items
OdinIndex ==
    [by_name |-> EmptyDict, by_pkg |-> EmptyDict, file_syms |-> EmptyDict,
     file_imports |-> EmptyDict, pkg_names |-> EmptyDict, odin_roots |-> <<>>]

\* clear that leaves the by-name store as it is
clear_KeepsByName(ix) ==
    [ix EXCEPT !.by_pkg = EmptyDict,
               !.file_syms = EmptyDict, !.file_imports = EmptyDict,
               !.pkg_names = EmptyDict]

\* OdinIndex.clear
clear(ix) ==
    [ix EXCEPT !.by_name = EmptyDict, !.by_pkg = EmptyDict,
               !.file_syms = EmptyDict, !.file_imports = EmptyDict,
               !.pkg_names = EmptyDict]

\* the filter that drops nothing
NotOfFile_KeepsAll(lst, filepath) == lst

\* a filter that drops the whole by-name list
NotOfFile_DropsAll(lst, filepath) == <<>>

\* [s for s in lst if s.file != filepath]
NotOfFile(lst, filepath) ==
    LET Keep(s) == s.file # filepath IN SelectSeq(lst, Keep)

\* the loop body that leaves the by-name list as it is
RemoveSym_KeepsByName(ix, sym, filepath) ==
    LET has_pkg == sym.package_dir \in DOMAIN ix.by_pkg
        pkg == IF has_pkg THEN ix.by_pkg[sym.package_dir] ELSE EmptyDict
    IN  [ix EXCEPT
            !.by_pkg = IF has_pkg /\ sym.name \in DOMAIN pkg
                          /\ pkg[sym.name].file = filepath
                       THEN DictSet(@, sym.package_dir, DictDel(pkg, sym.name))
                       ELSE @]

\* the removal of one old symbol that leaves the package dict as it is
RemoveSym_KeepsByPkg(ix, sym, filepath) ==
    LET lst == DictGet(ix.by_name, sym.name, <<>>)
    IN  [ix EXCEPT !.by_name = DictSet(@, sym.name, NotOfFile(lst, filepath))]

\* the body of remove_file's loop for one old symbol
RemoveSym(ix, sym, filepath) ==
    LET lst == DictGet(ix.by_name, sym.name, <<>>)
        by_name1 == DictSet(ix.by_name, sym.name, NotOfFile(lst, filepath))
        has_pkg == sym.package_dir \in DOMAIN ix.by_pkg
        pkg == IF has_pkg THEN ix.by_pkg[sym.package_dir] ELSE EmptyDict
        by_pkg1 == IF has_pkg /\ sym.name \in DOMAIN pkg
                      /\ pkg[sym.name].file = filepath
                   THEN DictSet(ix.by_pkg, sym.package_dir, DictDel(pkg, sym.name))
                   ELSE ix.by_pkg
    IN  [ix EXCEPT !.by_name = by_name1, !.by_pkg = by_pkg1]

RECURSIVE RemoveSyms(_, _, _)
RemoveSyms(ix, syms, filepath) ==
    IF syms = <<>> THEN ix
    ELSE RemoveSyms(RemoveSym(ix, syms[1], filepath), Tail(syms), filepath)

\* OdinIndex.remove_file, the part run under the lock; filepath is normalized
remove_file(ix, filepath) ==
    LET old_syms == DictGet(ix.file_syms, filepath, <<>>)
        ix1 == [ix EXCEPT !.file_syms = DictDel(@, filepath)]
        ix2 == RemoveSyms(ix1, old_syms, filepath)
    IN  [ix2 EXCEPT !.file_imports = DictDel(@, filepath)]

\* the replacement that forgets to remove the file's old data
ReplaceFile_NoRemove(ix, filepath, parsed) ==
    [ix EXCEPT !.file_syms = DictSet(@, filepath, parsed.symbols),
               !.file_imports = DictSet(@, filepath, parsed.imports)]

\* the replacement that leaves the index alone when nothing was parsed
ReplaceFile_SkipsEmpty(ix, filepath, parsed) ==
    IF parsed.symbols = <<>> /\ parsed.imports = <<>> THEN ix
    ELSE LET ix1 == remove_file(ix, filepath) IN
         [ix1 EXCEPT !.pkg_names = IF parsed.package_name # ""
                                   THEN DictSet(@, _normalize_path(dirname(filepath)),
                                                parsed.package_name)
                                   ELSE @,
                     !.file_syms = DictSet(@, filepath, parsed.symbols),
                     !.file_imports = DictSet(@, filepath, parsed.imports)]

\* index_file, lines 580-588: old data removed, the per-file stores written
ReplaceFile(ix, filepath, parsed) ==
    LET ix1 == remove_file(ix, filepath)
        pkg_dir == _normalize_path(dirname(filepath))
        ix2 == IF parsed.package_name # ""
               THEN [ix1 EXCEPT !.pkg_names = DictSet(@, pkg_dir, parsed.package_name)]
               ELSE ix1
    IN  [ix2 EXCEPT !.file_syms = DictSet(@, filepath, parsed.symbols),
                    !.file_imports = DictSet(@, filepath, parsed.imports)]

\* index_file entering a symbol with setdefault: the name keeps the symbol
\* the package dict has for it already
InsertSym_KeepsFirst(ix, sym) ==
    [ix EXCEPT
        !.by_name = DictSet(@, sym.name, Append(DictGet(@, sym.name, <<>>), sym)),
        !.by_pkg = DictSet(@, sym.package_dir,
                           DictSet(DictGet(@, sym.package_dir, EmptyDict),
                                   sym.name,
                                   DictGet(DictGet(@, sym.package_dir, EmptyDict),
                                           sym.name, sym)))]

\* index_file, lines 590-592: one symbol enters by_name and by_pkg
InsertSym(ix, sym) ==
    [ix EXCEPT
        !.by_name = DictSet(@, sym.name, Append(DictGet(@, sym.name, <<>>), sym)),
        !.by_pkg = DictSet(@, sym.package_dir,
                           DictSet(DictGet(@, sym.package_dir, EmptyDict),
                                   sym.name, sym))]

\* OdinIndex.get_file_imports
get_file_imports(ix, filepath) ==
    DictGet(ix.file_imports, _normalize_path(filepath), <<>>)

\* OdinIndex.get_package_symbols
get_package_symbols(ix, pkg_dir) ==
    DictGet(ix.by_pkg, _normalize_path(pkg_dir), EmptyDict)

\* OdinIndex.get_symbols_by_name
get_symbols_by_name(ix, name) == DictGet(ix.by_name, name, <<>>)

\* os.path.isdir against the directories that exist
isdir(fs_dirs, d) == d \in fs_dirs

\* the first candidate of a collection import that exists, over the roots in
\* the order they are tried; <<>> when none exists
RECURSIVE FirstExisting(_, _, _)
FirstExisting(fs_dirs, roots, imp) ==
    IF roots = <<>> THEN <<>>
    ELSE LET resolved == _normalize_path(
                 join(join(roots[1], <<imp.collection>>), imp.rel_path))
         IN  IF isdir(fs_dirs, resolved) THEN resolved
             ELSE FirstExisting(fs_dirs, Tail(roots), imp)

\* str.startswith for paths: the text of path begins with the text of prefix
startswith(path, prefix) ==
    LET n == Len(prefix) IN
    \/ n = 0
    \/ /\ n <= Len(path)
       /\ Take(path, n - 1) = Take(prefix, n - 1)
       /\ Len(prefix[n]) <= Len(path[n])
       /\ SubSeq(path[n], 1, Len(prefix[n])) = prefix[n]

\* the roots of the project folders that filepath starts with, in dict order
RECURSIVE OwnRoots(_, _)
OwnRoots(odin_roots, filepath) ==
    IF odin_roots = <<>> THEN <<>>
    ELSE (IF startswith(filepath, odin_roots[1].folder)
          THEN <<odin_roots[1].root>> ELSE <<>>)
         \o OwnRoots(Tail(odin_roots), filepath)

\* the resolution that does not look at the cached directory
resolve_import_dir_NoCache(odin_roots, fs_dirs, filepath0, imp, any_order) ==
    LET filepath == _normalize_path(filepath0)
        Resolved(resolved) ==
            [dir |-> resolved,
             imp |-> IF resolved # <<>> THEN [imp EXCEPT !.resolved_dir = resolved]
                     ELSE imp]
        Existing(r) == IF isdir(fs_dirs, r) THEN r ELSE <<>>
    IN  Resolved(IF imp.collection # ""
                 THEN FirstExisting(fs_dirs,
                                    OwnRoots(odin_roots, filepath) \o any_order, imp)
                 ELSE Existing(_normalize_path(
                                   normpath(join(dirname(filepath), imp.rel_path)))))

\* the resolution that remembers the candidate it tried, found or not
resolve_import_dir_CachesFailure(odin_roots, fs_dirs, filepath0, imp, any_order) ==
    LET filepath == _normalize_path(filepath0)
        candidate == _normalize_path(normpath(join(dirname(filepath), imp.rel_path)))
        Resolved(resolved) ==
            [dir |-> resolved,
             imp |-> IF resolved # <<>> THEN [imp EXCEPT !.resolved_dir = resolved]
                     ELSE imp]
    IN
    IF imp.resolved_dir # <<>> THEN [dir |-> imp.resolved_dir, imp |-> imp]
    ELSE IF imp.collection # ""
    THEN Resolved(FirstExisting(fs_dirs,
                                OwnRoots(odin_roots, filepath) \o any_order, imp))
    ELSE [dir |-> IF isdir(fs_dirs, candidate) THEN candidate ELSE <<>>,
          imp |-> [imp EXCEPT !.resolved_dir = candidate]]

\* the resolution that forgets a cached directory that is gone
resolve_import_dir_DropsStale(odin_roots, fs_dirs, filepath0, imp, any_order) ==
    LET filepath == _normalize_path(filepath0)
        Resolved(resolved) ==
            [dir |-> resolved,
             imp |-> [imp EXCEPT !.resolved_dir = resolved]]
        Existing(r) == IF isdir(fs_dirs, r) THEN r ELSE <<>>
    IN
    IF imp.resolved_dir # <<>> /\ isdir(fs_dirs, imp.resolved_dir)
    THEN [dir |-> imp.resolved_dir, imp |-> imp]
    ELSE Resolved(IF imp.collection # ""
                  THEN FirstExisting(fs_dirs,
                                     OwnRoots(odin_roots, filepath) \o any_order, imp)
                  ELSE Existing(_normalize_path(
                                    normpath(join(dirname(filepath), imp.rel_path)))))

\* OdinIndex.resolve_import_dir -> [dir, imp]: dir is <<>> for None, imp is the
\* ImportInfo afterwards (its resolved_dir written on success).  any_order is
\* the iteration order of set(self._odin_roots.values()).
resolve_import_dir(odin_roots, fs_dirs, filepath0, imp, any_order) ==
    LET filepath == _normalize_path(filepath0)
        file_dir == dirname(filepath)
        Resolved(resolved) ==
            [dir |-> resolved,
             imp |-> IF resolved # <<>> THEN [imp EXCEPT !.resolved_dir = resolved]
                     ELSE imp]
        Existing(r) == IF isdir(fs_dirs, r) THEN r ELSE <<>>
    IN
    IF imp.resolved_dir # <<>> THEN [dir |-> imp.resolved_dir, imp |-> imp]
    ELSE Resolved(IF imp.collection # ""
                  THEN FirstExisting(fs_dirs,
                                     OwnRoots(odin_roots, filepath) \o any_order, imp)
                  ELSE Existing(_normalize_path(
                                    normpath(join(file_dir, imp.rel_path)))))

\* str.lstrip('^')
RECURSIVE LStripPtr(_)
LStripPtr(t) == IF t # <<>> /\ t[1] = "^" THEN LStripPtr(Tail(t)) ELSE t

\* lookup_type's loops over the file's imports, from import k on:
\* [sym, imports]: sym is <<>> for None, else <<Symbol>>; imports is the
\* file's import list afterwards.  alias is "" for the unqualified search.
RECURSIVE LookupInImports(_, _, _, _, _, _, _, _)
LookupInImports(ix, fs_dirs, from_file, imports, k, alias, key, any_order) ==
    IF k > Len(imports) THEN [sym |-> <<>>, imports |-> imports]
    ELSE IF alias # "" /\ imports[k].alias # alias
    THEN LookupInImports(ix, fs_dirs, from_file, imports, k + 1, alias, key, any_order)
    ELSE LET Resolved(r, imports1, pkg_syms) ==
                 IF r.dir # <<>> /\ (alias # "" \/ key \in DOMAIN pkg_syms)
                 THEN [sym |-> IF key \in DOMAIN pkg_syms
                               THEN <<pkg_syms[key]>> ELSE <<>>,
                       imports |-> imports1]
                 ELSE LookupInImports(ix, fs_dirs, from_file, imports1, k + 1,
                                      alias, key, any_order)
             Import(r) ==
                 Resolved(r, [imports EXCEPT ![k] = r.imp],
                          get_package_symbols(ix, r.dir))
         IN  Import(resolve_import_dir(ix.odin_roots, fs_dirs, from_file,
                                       imports[k], any_order))

\* OdinIndex.lookup_type -> [sym, ix]: ix is the index afterwards (the
\* resolved_dir of the imports the search resolved is written)
lookup_type(ix, fs_dirs, type_name, from_file0, any_order) ==
    LET clean == LStripPtr(type_name)
        from_file == _normalize_path(from_file0)
        imports == get_file_imports(ix, from_file)
        dot == FirstIndex(clean, ".")
        WithImports(r) ==
            [sym |-> r.sym,
             ix |-> IF from_file \in DOMAIN ix.file_imports
                    THEN [ix EXCEPT !.file_imports[from_file] = r.imports]
                    ELSE ix]
    IN
    IF clean = <<>> THEN [sym |-> <<>>, ix |-> ix]
    ELSE IF dot > 0
    THEN WithImports(LookupInImports(ix, fs_dirs, from_file, imports, 1,
                                     TokStr(Take(clean, dot - 1)),
                                     TokStr(Drop(clean, dot)), any_order))
    ELSE LET pkg_syms == get_package_symbols(ix, dirname(from_file))
             key == TokStr(clean)
         IN  IF key \in DOMAIN pkg_syms
             THEN [sym |-> <<pkg_syms[key]>>, ix |-> ix]
             ELSE WithImports(LookupInImports(ix, fs_dirs, from_file, imports, 1,
                                              "", key, any_order))

\* index_file as a whole: ReplaceFile, then every parsed symbol inserted
RECURSIVE InsertFrom(_, _, _)
InsertFrom(ix, syms, i) ==
    IF i > Len(syms) THEN ix ELSE InsertFrom(InsertSym(ix, syms[i]), syms, i + 1)

IndexFileWhole(ix, filepath, parsed) ==
    InsertFrom(ReplaceFile(ix, filepath, parsed), parsed.symbols, 1)

(* ---------------------------------------------------------------------- *)
(* resolve_fields as the steps of its recursion                            *)
(* ---------------------------------------------------------------------- *)

\* the depth of nested resolve_fields calls the interpreter allows before it
\* raises RecursionError (scaled down)
MaxRecursion == 4

\* a call frame of resolve_fields: fields = dict(sym.fields), the loop at
\* using type number i
Frame(sym) == [sym |-> sym, fields |-> sym.fields, i |-> 1]

RFIdle == [status |-> "idle", stack |-> <<>>, result |-> NoFields, arg |-> <<>>]

\* frames whose loop is over return: the caller's fields.update(result)
RECURSIVE Unwind(_)
Unwind(r) ==
    LET n == Len(r.stack)
        top == r.stack[n]
    IN  IF top.i <= Len(top.sym.using_types) THEN r
        ELSE IF n = 1
        THEN [r EXCEPT !.status = "done", !.stack = <<>>, !.result = top.fields]
        ELSE Unwind([r EXCEPT !.stack =
                 Append(Take(r.stack, n - 2),
                        [r.stack[n - 1] EXCEPT
                            !.fields = DictUpdate(@, top.fields),
                            !.i = @ + 1])])

\* resolve_fields(sym) is entered; sym is <<>> for None, else <<Symbol>>
resolve_fields_enter(sym) ==
    IF sym = <<>> \/ sym[1].kind # "struct"
    THEN [status |-> "done", stack |-> <<>>, result |-> NoFields, arg |-> sym]
    ELSE Unwind([status |-> "run", stack |-> <<Frame(sym[1])>>,
                 result |-> NoFields, arg |-> sym])

\* the next lookup_type of a running resolve_fields, against index ix:
\* [rf, ix] afterwards
resolve_fields_step(r, ix, fs_dirs, any_order) ==
    LET n == Len(r.stack)
        top == r.stack[n]
        Parent(lk) ==
            IF lk.sym # <<>> /\ lk.sym[1].kind = "struct"
            THEN IF n >= MaxRecursion
                 THEN [rf |-> [r EXCEPT !.status = "RecursionError", !.stack = <<>>],
                       ix |-> lk.ix]
                 ELSE [rf |-> Unwind([r EXCEPT !.stack = Append(@, Frame(lk.sym[1]))]),
                       ix |-> lk.ix]
            ELSE [rf |-> Unwind([r EXCEPT !.stack[n].i = @ + 1]), ix |-> lk.ix]
    IN  Parent(lookup_type(ix, fs_dirs, top.sym.using_types[top.i], top.sym.file,
                           any_order))

\* resolve_fields(sym) run to its end against one index state
RECURSIVE RunResolve(_, _, _, _)
RunResolve(r, ix, fs_dirs, any_order) ==
    IF r.status # "run" THEN r
    ELSE LET Stepped(nx) == RunResolve(nx.rf, nx.ix, fs_dirs, any_order)
         IN  Stepped(resolve_fields_step(r, ix, fs_dirs, any_order))

resolve_fields(ix, fs_dirs, sym, any_order) ==
    RunResolve(resolve_fields_enter(sym), ix, fs_dirs, any_order)

\* resolve_fields(sym) run to its end, with the index it leaves: [rf, ix]
RECURSIVE ResolveRun(_, _, _)
ResolveRun(nx, fs_dirs, any_order) ==
    IF nx.rf.status # "run" THEN nx
    ELSE ResolveRun(resolve_fields_step(nx.rf, nx.ix, fs_dirs, any_order),
                    fs_dirs, any_order)

\* OdinIndex.resolve_enum_for_type -> [sym, ix]
resolve_enum_for_type(ix, fs_dirs, type_name, from_file, any_order) ==
    LET Found(lk) ==
            IF lk.sym = <<>> THEN lk
            ELSE IF lk.sym[1].kind = "enum" THEN lk
            ELSE IF lk.sym[1].kind = "type" /\ lk.sym[1].underlying_enum # ""
            THEN lookup_type(lk.ix, fs_dirs, <<lk.sym[1].underlying_enum>>,
                             from_file, any_order)
            ELSE [sym |-> <<>>, ix |-> lk.ix]
    IN  Found(lookup_type(ix, fs_dirs, type_name, from_file, any_order))

(* ---------------------------------------------------------------------- *)
(* Type resolution helpers (for completions)                               *)
(*                                                                         *)
(* The text of a view is a sequence of lines of tokens; where lines are    *)
(* joined the line break is the token "\n".  A "." is written without      *)
(* white space on either side, a "^" without white space after it, and     *)
(* two identifiers are never written without white space between them.    *)
(* ---------------------------------------------------------------------- *)

\* the tokens of identifier characters (str.isalnum() or '_')
IsIdent(tok) == IsWord(tok) /\ tok # "\n"

\* ''.join(tokens): tokens written without white space between them
RECURSIVE Glue(_)
Glue(toks) == IF toks = <<>> THEN "" ELSE toks[1] \o Glue(Tail(toks))

\* walking back from token j over characters that are alphanumeric, '_' or
\* '.': the index of the first token of the run that ends at j (j + 1 for an
\* empty run)
RECURSIVE NameStart(_, _)
NameStart(text, j) ==
    IF j < 1 THEN 1
    ELSE IF text[j] = "." THEN NameStart(text, j - 1)
    ELSE IF IsIdent(text[j])
    THEN IF j > 1 /\ text[j - 1] = "." THEN NameStart(text, j - 1) ELSE j
    ELSE j + 1

\* _find_enclosing_call, the walk back from token i:
\* [func_name, param_index], func_name the tokens of the name, <<>> for None
RECURSIVE EnclosingCallFrom(_, _, _, _)
EnclosingCallFrom(text, i, depth, comma_count) ==
    IF i < 1 THEN [func_name |-> <<>>, param_index |-> 0]
    ELSE IF text[i] = ")" THEN EnclosingCallFrom(text, i - 1, depth + 1, comma_count)
    ELSE IF text[i] = "("
    THEN IF depth = 0
         THEN LET func_name == SubSeq(text, NameStart(text, i - 1), i - 1) IN
              IF func_name # <<>>
              THEN [func_name |-> func_name, param_index |-> comma_count]
              ELSE [func_name |-> <<>>, param_index |-> 0]
         ELSE EnclosingCallFrom(text, i - 1, depth - 1, comma_count)
    ELSE IF text[i] = "," /\ depth = 0
    THEN EnclosingCallFrom(text, i - 1, depth, comma_count + 1)
    ELSE IF text[i] = "{" THEN EnclosingCallFrom(text, i - 1, depth - 1, comma_count)
    ELSE IF text[i] = "}" THEN EnclosingCallFrom(text, i - 1, depth + 1, comma_count)
    ELSE EnclosingCallFrom(text, i - 1, depth, comma_count)

_find_enclosing_call(text) == EnclosingCallFrom(text, Len(text), 0, 0)

\* the text from the start of the line five lines above the cursor's line up
\* to the cursor; the cursor is at the end of the last line of lines
RECURSIVE JoinLines(_)
JoinLines(ls) ==
    IF ls = <<>> THEN <<>>
    ELSE IF Len(ls) = 1 THEN ls[1]
    ELSE ls[1] \o <<"\n">> \o JoinLines(Tail(ls))

TextBefore(lines) ==
    JoinLines(SubSeq(lines, IF Len(lines) > 6 THEN Len(lines) - 5 ELSE 1, Len(lines)))

\* the loop of lines 992-998 from symbol number k of the by-name list on:
\* [sym, ix] of the first procedure whose parameter resolves to an enum
RECURSIVE FirstEnumParam(_, _, _, _, _, _, _)
FirstEnumParam(ix, fs_dirs, syms, k, param_idx, filepath, any_order) ==
    IF k > Len(syms) THEN [sym |-> <<>>, ix |-> ix]
    ELSE IF syms[k].kind = "proc" /\ param_idx < Len(syms[k].params)
    THEN LET Resolved(e) ==
                 IF e.sym # <<>> THEN e
                 ELSE FirstEnumParam(e.ix, fs_dirs, syms, k + 1, param_idx,
                                     filepath, any_order)
         IN  Resolved(resolve_enum_for_type(ix, fs_dirs,
                                            syms[k].params[param_idx + 1][2],
                                            filepath, any_order))
    ELSE FirstEnumParam(ix, fs_dirs, syms, k + 1, param_idx, filepath, any_order)

\* the loop of lines 1004-1016 over the file's imports, from import k on, for
\* a call qualified with a package alias: [sym, ix]
RECURSIVE QualifiedEnumParam(_, _, _, _, _, _, _, _)
QualifiedEnumParam(ix, fs_dirs, filepath, k, pkg_alias, fn, param_idx, any_order) ==
    LET imports == get_file_imports(ix, filepath) IN
    IF k > Len(imports) THEN [sym |-> <<>>, ix |-> ix]
    ELSE IF imports[k].alias # pkg_alias
    THEN QualifiedEnumParam(ix, fs_dirs, filepath, k + 1, pkg_alias, fn, param_idx,
                            any_order)
    ELSE LET Next1(ix1) ==
                 QualifiedEnumParam(ix1, fs_dirs, filepath, k + 1, pkg_alias, fn,
                                    param_idx, any_order)
             Param(ix1, pkg_syms) ==
                 IF fn \in DOMAIN pkg_syms /\ pkg_syms[fn].kind = "proc"
                    /\ param_idx < Len(pkg_syms[fn].params)
                 THEN LET Resolved(e) == IF e.sym # <<>> THEN e ELSE Next1(e.ix)
                      IN  Resolved(resolve_enum_for_type(
                                       ix1, fs_dirs,
                                       pkg_syms[fn].params[param_idx + 1][2],
                                       filepath, any_order))
                 ELSE Next1(ix1)
             Import(r) ==
                 IF r.dir # <<>>
                 THEN Param([ix EXCEPT !.file_imports[filepath][k] = r.imp],
                            get_package_symbols(ix, r.dir))
                 ELSE Next1(ix)
         IN  Import(resolve_import_dir(ix.odin_roots, fs_dirs, filepath,
                                       imports[k], any_order))

\* the run of characters of [\w.^] that ends at token j: the index of its
\* first token (j + 1 for an empty run)
RECURSIVE TypeStart(_, _)
TypeStart(text, j) ==
    IF j < 1 THEN 1
    ELSE IF text[j] \in {".", "^"} THEN TypeStart(text, j - 1)
    ELSE IF IsIdent(text[j])
    THEN IF j > 1 /\ text[j - 1] \in {".", "^"} THEN TypeStart(text, j - 1) ELSE j
    ELSE j + 1

\* the index of the last token at or before j that is no line break (\s*)
RECURSIVE SkipBreaks(_, _)
SkipBreaks(text, j) ==
    IF j >= 1 /\ text[j] = "\n" THEN SkipBreaks(text, j - 1) ELSE j

\* :\s*([\w.^]+)\s*=\s*$ : the type annotation before an '=' at the end of
\* the text, <<>> for no match
AnnotationAtEnd(text) ==
    LET e == SkipBreaks(text, Len(text)) IN
    IF e < 1 \/ text[e] # "=" THEN <<>>
    ELSE LET t == SkipBreaks(text, e - 1)
             s0 == TypeStart(text, t)
             c == SkipBreaks(text, s0 - 1)
         IN  IF s0 <= t /\ c >= 1 /\ text[c] \in {":", "::"}
             THEN SubSeq(text, s0, t) ELSE <<>>

\* (\w+)\s*[!=]=\s*$ : the identifier compared at the end of the text, <<>>
\* for no match
ComparedAtEnd(text) ==
    LET e == SkipBreaks(text, Len(text)) IN
    IF e < 2 \/ text[e] \notin {"==", "!="} THEN <<>>
    ELSE LET t == SkipBreaks(text, e - 1) IN
         IF t >= 1 /\ IsIdent(text[t]) THEN <<text[t]>> ELSE <<>>

\* _find_expected_enum_type -> [sym, ix]; lines is the view's text up to the
\* cursor, var_type what _find_variable_type finds in the view for the
\* compared identifier (<<>> for None)
_find_expected_enum_type(ix, fs_dirs, filepath0, lines, var_type, any_order) ==
    LET filepath == _normalize_path(filepath0)
        text_before == TextBefore(lines)
        call == _find_enclosing_call(text_before)
        Rest(ix3) ==
            IF AnnotationAtEnd(text_before) # <<>>
            THEN resolve_enum_for_type(ix3, fs_dirs, AnnotationAtEnd(text_before),
                                       filepath, any_order)
            ELSE IF ComparedAtEnd(text_before) # <<>> /\ var_type # <<>>
            THEN resolve_enum_for_type(ix3, fs_dirs, var_type, filepath, any_order)
            ELSE [sym |-> <<>>, ix |-> ix3]
        Qualified(e) ==
            IF e.sym # <<>> THEN e ELSE Rest(e.ix)
        ByName(e) ==
            IF e.sym # <<>> THEN e
            ELSE IF LastIndex(call.func_name, ".") > 0
            THEN Qualified(QualifiedEnumParam(
                     e.ix, fs_dirs, filepath, 1,
                     Glue(Take(call.func_name, LastIndex(call.func_name, ".") - 1)),
                     Glue(Drop(call.func_name, LastIndex(call.func_name, "."))),
                     call.param_index, any_order))
            ELSE Rest(e.ix)
    IN  IF call.func_name # <<>>
        THEN ByName(FirstEnumParam(ix, fs_dirs,
                                   get_symbols_by_name(ix, Glue(call.func_name)),
                                   1, call.param_index, filepath, any_order))
        ELSE Rest(ix)

\* what a chain resolves to: None, a package directory, a symbol; or the
\* RecursionError that resolve_fields raised
ChainNone(ix) == [kind |-> "None", sym |-> <<>>, dir |-> <<>>, ix |-> ix]

ChainSym(sym, ix) ==
    IF sym = <<>> THEN ChainNone(ix)
    ELSE [kind |-> "symbol", sym |-> sym, dir |-> <<>>, ix |-> ix]

\* the loop of _resolve_field_chain at part number i, fields the resolved
\* fields of the struct walked so far
RECURSIVE FieldChainFrom(_, _, _, _, _, _, _)
FieldChainFrom(ix, fs_dirs, fields, remaining_parts, i, filepath, any_order) ==
    IF i > Len(remaining_parts) THEN ChainNone(ix)
    ELSE IF remaining_parts[i] \notin DOMAIN fields THEN ChainNone(ix)
    ELSE LET Walk(run) ==
                 IF run.rf.status = "RecursionError"
                 THEN [kind |-> "RecursionError", sym |-> <<>>, dir |-> <<>>,
                       ix |-> run.ix]
                 ELSE FieldChainFrom(run.ix, fs_dirs, run.rf.result, remaining_parts,
                                     i + 1, filepath, any_order)
             Field(lk) ==
                 IF lk.sym = <<>> THEN ChainNone(lk.ix)
                 ELSE IF i = Len(remaining_parts) THEN ChainSym(lk.sym, lk.ix)
                 ELSE IF lk.sym[1].kind = "struct"
                 THEN Walk(ResolveRun([rf |-> resolve_fields_enter(lk.sym),
                                       ix |-> lk.ix], fs_dirs, any_order))
                 ELSE ChainNone(lk.ix)
         IN  Field(lookup_type(ix, fs_dirs, fields[remaining_parts[i]], filepath,
                               any_order))

\* _resolve_field_chain(sym, remaining_parts, filepath), sym <<>> for None
_resolve_field_chain(ix, fs_dirs, sym, remaining_parts, filepath, any_order) ==
    IF sym = <<>> \/ sym[1].kind # "struct" THEN ChainNone(ix)
    ELSE LET Walk(run) ==
                 IF run.rf.status = "RecursionError"
                 THEN [kind |-> "RecursionError", sym |-> <<>>, dir |-> <<>>,
                       ix |-> run.ix]
                 ELSE FieldChainFrom(run.ix, fs_dirs, run.rf.result, remaining_parts,
                                     1, filepath, any_order)
         IN  Walk(ResolveRun([rf |-> resolve_fields_enter(sym), ix |-> ix],
                             fs_dirs, any_order))

\* the number of the first import of a list with an alias, 0 for none
FirstAlias(imports, alias) ==
    LET ks == {k \in DOMAIN imports : imports[k].alias = alias}
    IN  IF ks = {} THEN 0 ELSE CHOOSE k \in ks : \A j \in ks : k <= j

\* _resolve_type_chain(view, filepath, chain_parts); var_type is what
\* _find_variable_type finds in the view for the first part (<<>> for None)
_resolve_type_chain(ix, fs_dirs, filepath0, chain_parts, var_type, any_order) ==
    LET filepath == _normalize_path(filepath0)
        imports == get_file_imports(ix, filepath)
        k == FirstAlias(imports, chain_parts[1])
        Package(r) ==
            LET ix1 == [ix EXCEPT !.file_imports[filepath][k] = r.imp] IN
            IF Len(chain_parts) = 1
            THEN [kind |-> "package", sym |-> <<>>, dir |-> r.dir, ix |-> ix1]
            ELSE IF r.dir = <<>> THEN ChainNone(ix1)
            ELSE IF chain_parts[2] \notin DOMAIN get_package_symbols(ix1, r.dir)
            THEN ChainNone(ix1)
            ELSE IF Len(chain_parts) = 2
            THEN ChainSym(<<get_package_symbols(ix1, r.dir)[chain_parts[2]]>>, ix1)
            ELSE _resolve_field_chain(
                     ix1, fs_dirs, <<get_package_symbols(ix1, r.dir)[chain_parts[2]]>>,
                     Drop(chain_parts, 2), filepath, any_order)
        Variable(lk) ==
            IF lk.sym = <<>> THEN ChainNone(lk.ix)
            ELSE IF Len(chain_parts) = 1 THEN ChainSym(lk.sym, lk.ix)
            ELSE _resolve_field_chain(lk.ix, fs_dirs, lk.sym, Drop(chain_parts, 1),
                                      filepath, any_order)
        Type(lk) ==
            IF lk.sym # <<>> /\ Len(chain_parts) = 1 THEN ChainSym(lk.sym, lk.ix)
            ELSE IF var_type # <<>>
            THEN Variable(lookup_type(lk.ix, fs_dirs, var_type, filepath, any_order))
            ELSE ChainNone(lk.ix)
    IN  IF chain_parts = <<>> THEN ChainNone(ix)
        ELSE IF k > 0
        THEN Package(resolve_import_dir(ix.odin_roots, fs_dirs, filepath, imports[k],
                                        any_order))
        ELSE Type(lookup_type(ix, fs_dirs, <<chain_parts[1]>>, filepath, any_order))

(* ---------------------------------------------------------------------- *)
(* The files and texts the operations are called with                      *)
(* ---------------------------------------------------------------------- *)

FileS == <<"a", "/", "s.odin">>

FileT == <<"a", "/", "t.odin">>

FileU == <<"b", "/", "u.odin">>

\* FileS as a caller on Windows hands it over
FileSWin == <<"a", "\\", "s.odin">>

Paths == {FileS, FileT, FileU, FileSWin}

TextSQ ==
    << <<"package", "a">>,
       <<"S", "::", "struct", "{", "x", ":", "int", ",", "y", ":", "int", "}">>,
       <<"Q", "::", "struct", "{">>,
       <<"y", ":", "bool", ",">>,
       <<"z", ":", "int", ",">>,
       <<"}">> >>

TextTM ==
    << <<"T", "::", "struct", "{", "using", "s", ":", "S", ",", "y", ":", "f32", "}">>,
       <<"M", "::", "struct", "{">>,
       <<"using", "s", ":", "S", ",">>,
       <<"using", "q", ":", "^", "Q", ",">>,
       <<"}">> >>

TextCyc ==
    << <<"A", "::", "struct", "{", "using", "b", ":", "B", ",", "x", ":", "int", "}">>,
       <<"B", "::", "struct", "{", "using", "a", ":", "A", ",", "y", ":", "int", "}">>,
       <<"S", "::", "1">>,
       <<"S", "::", "struct", "{", "x", ":", "u8", "}">> >>

TextU ==
    << <<"package", "b">>,
       <<"import", "\"", "..", "/", "a", "\"">>,
       <<"U", "::", "struct", "{", "using", "s", ":", "S", ",", "k", ":", "int", "}">>,
       <<"Q", "::", "distinct", "int">> >>

\* the calls of index_file: (path, content, read) with content a given text,
\* or None with the read of the file succeeding or failing
IndexCalls ==
    {<<FileS, Given(TextSQ), ReadFails>>, <<FileSWin, None, ReadOk(TextSQ)>>,
     <<FileS, Given(TextCyc), ReadFails>>,
     <<FileT, Given(TextTM), ReadFails>>, <<FileT, Given(TextCyc), ReadFails>>,
     <<FileU, Given(TextU), ReadFails>>, <<FileU, None, ReadOk(TextSQ)>>}
    \cup {<<f, None, ReadFails>> : f \in {FileS, FileT, FileU}}

\* the directories that exist
Dirs == {<<"a">>, <<"b">>}

\* every order in which the elements of a set can be iterated
Orders(S) == {f \in [1..Cardinality(S) -> S] : Range(f) = S}

(* ---------------------------------------------------------------------- *)
(* State                                                                   *)
(* ---------------------------------------------------------------------- *)

VARIABLES
    _index,     \* the global OdinIndex: its stores
    lock,       \* _index._lock, a re-entrant lock: [owner, count]
    th,         \* per thread: the operation it is in and its locals
    rf,         \* the resolve_fields call in progress (a reader without lock)
    last,       \* the last call that returned, with what it returned
    seen,       \* the index states, with the lock free, during the running rf
    calls,      \* the number of calls made, where the calls are counted
    fs_dirs,    \* the directories of the filesystem
    _indexing,  \* the module's "indexing in progress" flag
    pass,       \* per thread: the do_index pass it runs, and where it is
    caller      \* plugin_loaded and OdinReindexCommand.run: where each is

vars == <<_index, lock, th, rf, last, seen, calls, fs_dirs, _indexing, pass, caller>>

\* the state of the background passes and of those who request them
passVars == <<_indexing, pass, caller>>

\* how often the reindex command is run
MaxReindex == 1

\* the number of index_file, remove_file and clear calls of a concurrent run
MaxCalls == 2

Threads == {"t1", "t2"}

NoParsed == [package_name |-> "", symbols |-> <<>>, imports |-> <<>>]

\* before, again and unread are history: the index when the operation took the
\* lock, whether the call repeats the call that returned last, and whether
\* index_file was to read the file itself and could not
ThreadIdle ==
    [pc |-> "idle", op |-> "", filepath |-> <<>>, parsed |-> NoParsed, i |-> 0,
     before |-> OdinIndex, again |-> FALSE, unread |-> FALSE]

\* a thread that runs no do_index.  A running pass is at folder number fi of
\* its window; todo are the files of the directory walk still to index, after
\* is where the pass goes on when they are done; all_imports, j and
\* indexed_dirs are the locals of _index_imported_packages; used is the
\* size of the by-name dict when the iteration of line 791 began
PassOff ==
    [pc |-> "off", window |-> "", fi |-> 0, todo |-> {}, after |-> "",
     all_imports |-> <<>>, j |-> 0, indexed_dirs |-> {}, used |-> 0]

\* plugin_loaded runs on one thread, the reindex command on another
Callers == {"loader", "ui"}

\* a caller: k is the window plugin_loaded's loop is at (0: not yet called),
\* window the argument of _index_project_folders, reindexes the number of
\* reindex commands run
CallerIdle == [pc |-> "idle", window |-> "", k |-> 0, reindexes |-> 0]

LockFree == [owner |-> "", count |-> 0]

\* was is history: what the call found its argument to be
NoLast ==
    [op |-> "", arg |-> <<>>, parsed |-> NoParsed, result |-> <<>>, views |-> {},
     was |-> <<>>]

Init ==
    /\ _index = OdinIndex
    /\ lock = LockFree
    /\ th = [t \in Threads |-> ThreadIdle]
    /\ rf = RFIdle
    /\ last = NoLast
    /\ seen = {}
    /\ calls = 0
    /\ fs_dirs = Dirs
    /\ _indexing = FALSE
    /\ pass = [t \in Threads |-> PassOff]
    /\ caller = [c \in Callers |-> CallerIdle]

\* no call is in progress
Quiet == (\A t \in Threads : th[t].pc = "idle") /\ rf.status = "idle"

\* a call is made: one caller waits for the call before; concurrent callers
\* are counted
Called(sequential) ==
    IF sequential THEN Quiet /\ calls' = calls
    ELSE calls < MaxCalls /\ calls' = calls + 1

\* the lock is released on index ix: a running resolve_fields was concurrent
\* with this index state
SeenAfter(ix) == IF rf.status = "run" THEN seen \cup {ix} ELSE seen

\* a lock that lets every thread in
CanAcquire_Always(t) == TRUE

\* a plain lock: its holder cannot take it again
RLockOpen_NotReentrant(l, t) == l.owner = ""

\* threading.RLock in state l can be acquired by t: free, or held by t
RLockOpen(l, t) == l.owner \in {"", t}

\* threading.RLock: free, or already held by the caller
CanAcquire(t) == RLockOpen(lock, t)

RootSet == {_index.odin_roots[k].root : k \in DOMAIN _index.odin_roots}

(* ---------------------------------------------------------------------- *)
(* index_file, remove_file, clear                                          *)
(* ---------------------------------------------------------------------- *)

\* index_file is called: the path is normalized and the file parsed, outside
\* the lock (lines 576-577); parsed is what parse_file returned
IndexFileParsed(t, path, content, read, parsed) ==
    /\ th[t].pc = "idle"
    /\ LET Parsed(filepath) ==
               th' = [th EXCEPT ![t] =
                   [pc |-> "index_lock", op |-> "index_file", filepath |-> filepath,
                    parsed |-> parsed, i |-> 0, before |-> OdinIndex,
                    again |-> last.op = "index_file" /\ last.arg = filepath
                              /\ last.parsed = parsed,
                    unread |-> ~content.given /\ ~read.ok]]
       IN  Parsed(_normalize_path(path))
    /\ last' = NoLast
    /\ UNCHANGED <<_index, lock, rf, seen, fs_dirs>>

IndexFileStart(t, path, content, read) ==
    IndexFileParsed(t, path, content, read,
                    parse_file(_normalize_path(path), content, read))

IndexFileCall(t, path, content, read, sequential) ==
    /\ Called(sequential)
    /\ IndexFileStart(t, path, content, read)
    /\ UNCHANGED passVars

\* with self._lock; self.remove_file(filepath) (which takes the lock again);
\* lines 583-588
IndexFileReplace(t) ==
    /\ th[t].pc = "index_lock"
    /\ CanAcquire(t)
    /\ RLockOpen([owner |-> t, count |-> lock.count + 1], t)
    /\ lock' = [owner |-> t, count |-> lock.count + 1]
    /\ _index' = ReplaceFile(_index, th[t].filepath, th[t].parsed)
    /\ th' = [th EXCEPT ![t].pc = "index_insert", ![t].i = 1, ![t].before = _index]
    /\ UNCHANGED <<rf, last, seen, calls, fs_dirs, passVars>>

\* one round of the loop of lines 590-592
IndexFileInsert(t) ==
    /\ th[t].pc = "index_insert"
    /\ th[t].i <= Len(th[t].parsed.symbols)
    /\ _index' = InsertSym(_index, th[t].parsed.symbols[th[t].i])
    /\ th' = [th EXCEPT ![t].i = @ + 1]
    /\ UNCHANGED <<lock, rf, last, seen, calls, fs_dirs, passVars>>

\* the loop is over: the with block ends and index_file returns
IndexFileRelease(t) ==
    /\ th[t].pc = "index_insert"
    /\ th[t].i > Len(th[t].parsed.symbols)
    /\ lock' = IF lock.count = 1 THEN LockFree ELSE [lock EXCEPT !.count = @ - 1]
    /\ th' = [th EXCEPT ![t].pc = "done"]
    /\ seen' = SeenAfter(_index)
    /\ UNCHANGED <<_index, rf, last, calls, fs_dirs, passVars>>

\* remove_file is called from outside index_file
RemoveFileCall(t, path, sequential) ==
    /\ Called(sequential)
    /\ th[t].pc = "idle"
    /\ th' = [th EXCEPT ![t] =
                [ThreadIdle EXCEPT !.pc = "remove_lock", !.op = "remove_file",
                                   !.filepath = _normalize_path(path)]]
    /\ last' = NoLast
    /\ UNCHANGED <<_index, lock, rf, seen, fs_dirs, passVars>>

\* remove_file's with block
RemoveFileRun(t) ==
    /\ th[t].pc = "remove_lock"
    /\ CanAcquire(t)
    /\ _index' = remove_file(_index, th[t].filepath)
    /\ th' = [th EXCEPT ![t].pc = "done", ![t].before = _index]
    /\ seen' = SeenAfter(_index')
    /\ UNCHANGED <<lock, rf, last, calls, fs_dirs, passVars>>

ClearCall(t, sequential) ==
    /\ Called(sequential)
    /\ th[t].pc = "idle"
    /\ th' = [th EXCEPT ![t] = [ThreadIdle EXCEPT !.pc = "clear_lock", !.op = "clear"]]
    /\ last' = NoLast
    /\ UNCHANGED <<_index, lock, rf, seen, fs_dirs, passVars>>

\* clear's with block
ClearRun(t) ==
    /\ th[t].pc = "clear_lock"
    /\ CanAcquire(t)
    /\ _index' = clear(_index)
    /\ th' = [th EXCEPT ![t].pc = "done", ![t].before = _index]
    /\ seen' = SeenAfter(_index')
    /\ UNCHANGED <<lock, rf, last, calls, fs_dirs, passVars>>

\* the caller goes on after the operation returned
Return(t) ==
    /\ th[t].pc = "done"
    /\ last' = [NoLast EXCEPT !.op = th[t].op, !.arg = th[t].filepath,
                               !.parsed = th[t].parsed]
    /\ th' = [th EXCEPT ![t] = ThreadIdle]
    /\ UNCHANGED <<_index, lock, rf, seen, calls, fs_dirs, passVars>>

(* ---------------------------------------------------------------------- *)
(* Queries: they take no lock                                              *)
(* ---------------------------------------------------------------------- *)

Names == {"S", "T", "A", "nope"}

\* the symbols of a by-name list that belong to filepath
OfFileSeq(lst, filepath) ==
    LET Mine(sym) == sym.file = filepath IN SelectSeq(lst, Mine)

\* the entries of a package dict whose symbol belongs to filepath
OfFileDict(d, filepath) ==
    [n \in {m \in DOMAIN d : d[m].file = filepath} |-> d[n]]

\* the threads inside index_file's with block
Replacing == {t \in Threads : th[t].pc = "index_insert"}

\* get_symbols_by_name(name) is called and returns; views holds, for every
\* file being replaced right now, whether it was indexed before and what the
\* query returns for that file before and after the replacement
QueryByName(name, sequential) ==
    /\ sequential => Quiet
    /\ last' = [op |-> "get_symbols_by_name", arg |-> <<name>>, parsed |-> NoParsed,
               result |-> get_symbols_by_name(_index, name),
               views |-> {[filepath |-> th[t].filepath,
                           indexed |-> th[t].filepath \in DOMAIN th[t].before.file_syms,
                           old |-> OfFileSeq(get_symbols_by_name(th[t].before, name),
                                             th[t].filepath),
                           new |-> OfFileSeq(get_symbols_by_name(
                                       IndexFileWhole(th[t].before, th[t].filepath,
                                                      th[t].parsed), name),
                                             th[t].filepath)] : t \in Replacing},
               was |-> <<>>]
    /\ UNCHANGED <<_index, lock, th, rf, seen, calls, fs_dirs, passVars>>

\* get_package_symbols reading the defaultdict with self._by_pkg[pkg_dir]:
\* a directory that is not there is entered with an empty dict
QueryPackage_Inserts(pkg_dir, sequential) ==
    /\ sequential => Quiet
    /\ last' = [op |-> "get_package_symbols", arg |-> pkg_dir, parsed |-> NoParsed,
               result |-> get_package_symbols(_index, pkg_dir),
               views |-> {}, was |-> <<>>]
    /\ _index' = [_index EXCEPT !.by_pkg =
                     DictSet(@, _normalize_path(pkg_dir),
                             DictGet(@, _normalize_path(pkg_dir), EmptyDict))]
    /\ UNCHANGED <<lock, th, rf, seen, calls, fs_dirs, passVars>>

\* get_package_symbols(pkg_dir) is called and returns
QueryPackage(pkg_dir, sequential) ==
    /\ sequential => Quiet
    /\ last' = [op |-> "get_package_symbols", arg |-> pkg_dir, parsed |-> NoParsed,
               result |-> get_package_symbols(_index, pkg_dir),
               views |-> {[filepath |-> th[t].filepath,
                           indexed |-> th[t].filepath \in DOMAIN th[t].before.file_syms,
                           old |-> OfFileDict(get_package_symbols(th[t].before, pkg_dir),
                                              th[t].filepath),
                           new |-> OfFileDict(get_package_symbols(
                                       IndexFileWhole(th[t].before, th[t].filepath,
                                                      th[t].parsed), pkg_dir),
                                              th[t].filepath)] : t \in Replacing},
               was |-> <<>>]
    /\ UNCHANGED <<_index, lock, th, rf, seen, calls, fs_dirs, passVars>>

\* resolve_fields(sym) is called with a symbol of the index
ResolveFieldsCall(sequential) ==
    /\ sequential => Quiet
    /\ rf.status = "idle"
    /\ \E d \in DOMAIN _index.by_pkg :
         \E n \in DOMAIN _index.by_pkg[d] :
            rf' = resolve_fields_enter(<<_index.by_pkg[d][n]>>)
    /\ last' = NoLast
    /\ seen' = {IF lock.owner = "" THEN _index ELSE th[lock.owner].before}
    /\ UNCHANGED <<_index, lock, th, calls, fs_dirs, passVars>>

\* the next lookup_type of the running resolve_fields
ResolveFieldsStep ==
    /\ rf.status = "run"
    /\ \E any_order \in Orders(RootSet) :
         LET Stepped(nx) == rf' = nx.rf /\ _index' = nx.ix
         IN  Stepped(resolve_fields_step(rf, _index, fs_dirs, any_order))
    /\ UNCHANGED <<lock, th, last, seen, calls, fs_dirs, passVars>>

\* resolve_fields merging into sym.fields itself (fields = sym.fields, no
\* copy): the stored Symbol's fields end up as the merged map
ResolveFieldsReturn_Aliased ==
    /\ rf.status \in {"done", "RecursionError"}
    /\ rf' = RFIdle
    /\ last' = [NoLast EXCEPT !.op = "resolve_fields", !.arg = rf.arg,
                               !.result = <<rf.status, rf.result>>]
    /\ seen' = {}
    /\ LET Merged(sym) ==
               IF rf.status = "done" /\ rf.arg = <<sym>>
               THEN [sym EXCEPT !.fields = rf.result] ELSE sym
       IN  _index' =
             [_index EXCEPT
                !.by_name = [n \in DOMAIN @ |-> [i \in DOMAIN @[n] |-> Merged(@[n][i])]],
                !.by_pkg = [d \in DOMAIN @ |-> [n \in DOMAIN @[d] |-> Merged(@[d][n])]],
                !.file_syms = [f \in DOMAIN @ |-> [i \in DOMAIN @[f] |-> Merged(@[f][i])]]]
    /\ UNCHANGED <<lock, th, calls, fs_dirs, passVars>>

\* resolve_fields returned, or raised
ResolveFieldsReturn ==
    /\ rf.status \in {"done", "RecursionError"}
    /\ rf' = RFIdle
    /\ last' = [NoLast EXCEPT !.op = "resolve_fields", !.arg = rf.arg,
                               !.result = <<rf.status, rf.result>>]
    /\ seen' = {}
    /\ UNCHANGED <<_index, lock, th, calls, fs_dirs, passVars>>

(* ---------------------------------------------------------------------- *)
(* Specifications                                                          *)
(* ---------------------------------------------------------------------- *)

Steps(t) ==
    \/ IndexFileReplace(t)
    \/ IndexFileInsert(t)
    \/ IndexFileRelease(t)
    \/ RemoveFileRun(t)
    \/ ClearRun(t)
    \/ Return(t)

Calls(t, sequential) ==
    \/ \E c \in IndexCalls : IndexFileCall(t, c[1], c[2], c[3], sequential)
    \/ \E path \in Paths : RemoveFileCall(t, path, sequential)
    \/ ClearCall(t, sequential)

Queries(sequential) ==
    \/ \E name \in Names : QueryByName(name, sequential)
    \/ \E d \in Dirs : QueryPackage(d, sequential)
    \/ ResolveFieldsCall(sequential)
    \/ ResolveFieldsStep
    \/ ResolveFieldsReturn

\* the calls of concurrent callers
ConcCalls(t) ==
    \/ \E c \in {<<FileS, Given(TextSQ), ReadFails>>, <<FileS, Given(TextU), ReadFails>>,
                 <<FileT, Given(TextTM), ReadFails>>, <<FileS, None, ReadFails>>} :
          IndexFileCall(t, c[1], c[2], c[3], FALSE)
    \/ RemoveFileCall(t, FileSWin, FALSE)
    \/ ClearCall(t, FALSE)

\* concurrent callers: two threads call index_file, remove_file and clear
\* while queries run on a third
NextConc ==
    \/ \E t \in Threads : ConcCalls(t) \/ Steps(t)
    \/ Queries(FALSE)

SpecConc == Init /\ [][NextConc]_vars

\* the threads that take the lock, without the queries (which take none)
NextLock == \E t \in Threads : ConcCalls(t) \/ Steps(t)

\* a thread inside index_file, remove_file or clear that can take a step is
\* eventually run; whether and when the operations are called is left open
SpecLock == Init /\ [][NextLock]_vars /\ \A t \in Threads : WF_vars(Steps(t))

\* one caller: every operation returns before the next is called
Next ==
    \/ Calls("t1", TRUE) \/ Steps("t1")
    \/ Queries(TRUE)

Spec == Init /\ [][Next]_vars

(* ---------------------------------------------------------------------- *)
(* The project on disk and the windows                                     *)
(* ---------------------------------------------------------------------- *)

\* a source file in a hidden directory, and a file that is no source file
FileHidden == <<"a", "/", ".git", "/", "s.odin">>

FileNotes == <<"a", "/", "notes.txt">>

DiskFiles == {FileS, FileT, FileU, FileHidden, FileNotes}

\* what reading a file of the disk gives
DiskText(f) ==
    IF f = FileS THEN TextSQ
    ELSE IF f = FileT THEN TextTM
    ELSE IF f = FileU THEN TextU
    ELSE IF f = FileHidden THEN TextCyc
    ELSE <<>>

\* f.endswith('.odin'), for the file names of the disk
EndsWithOdin(f) == f \in {"s.odin", "t.odin", "u.odin"}

\* d.startswith('.'), for the directory names of the disk
StartsWithDot(d) == d \in {".git"}

\* sublime.windows(), and window.folders()
Windows == <<"w1", "w2", "w3">>

folders(window) ==
    IF window = "w1" THEN << <<"a">> >>
    ELSE IF window = "w2" THEN << <<"b">> >>
    ELSE <<>>

\* index_directory(dirpath), recursive: the files os.walk reaches and the loop
\* hands to index_file; hidden directories are not entered
WalkFiles(dirpath) ==
    {f \in DiskFiles :
        /\ IsPrefix(dirpath \o <<"/">>, f)
        /\ LET below == Components(Drop(f, Len(dirpath) + 1)) IN
           /\ below # <<>>
           /\ EndsWithOdin(below[Len(below)])
           /\ \A i \in 1..(Len(below) - 1) : ~StartsWithDot(below[i])}

\* index_directory(dirpath, recursive=False): the files of os.listdir
ListFiles(dirpath) ==
    {f \in DiskFiles : dirname(f) = dirpath /\ EndsWithOdin(f[Len(f)])}

\* the levels find_odin_root searches upward
MaxLevels == 10

\* find_odin_root's search from directory d with n levels left:
\* [found, root]
RECURSIVE FindRootFrom(_, _, _)
FindRootFrom(dirs, d, n) ==
    IF n = 0 THEN [found |-> FALSE, root |-> <<>>]
    ELSE IF isdir(dirs, join(d, <<"core">>)) /\ isdir(dirs, join(d, <<"vendor">>))
    THEN [found |-> TRUE, root |-> _normalize_path(d)]
    ELSE IF isdir(dirs, join(d, <<"Odin">>))
            /\ isdir(dirs, join(join(d, <<"Odin">>), <<"core">>))
    THEN [found |-> TRUE, root |-> _normalize_path(join(d, <<"Odin">>))]
    ELSE IF dirname(d) = d THEN [found |-> FALSE, root |-> <<>>]
    ELSE FindRootFrom(dirs, dirname(d), n - 1)

\* OdinIndex.find_odin_root -> [found, root, ix]: a root found is remembered
\* under the project folder
find_odin_root(ix, dirs, project_folder0) ==
    LET project_folder == _normalize_path(project_folder0)
        known == {k \in DOMAIN ix.odin_roots :
                     ix.odin_roots[k].folder = project_folder}
        Searched(r) ==
            [found |-> r.found, root |-> r.root,
             ix |-> IF r.found
                    THEN [ix EXCEPT !.odin_roots =
                             Append(@, [folder |-> project_folder, root |-> r.root])]
                    ELSE ix]
    IN  IF known # {}
        THEN [found |-> TRUE,
              root |-> ix.odin_roots[CHOOSE k \in known : TRUE].root, ix |-> ix]
        ELSE Searched(FindRootFrom(dirs, project_folder, MaxLevels))

\* _index_imported_packages: the collection imports of all_imports, each with
\* the file and the place it was stored at when the list was taken
RECURSIVE CollectionImports(_, _)
CollectionImports(ix, files) ==
    IF files = <<>> THEN <<>>
    ELSE LET imps == ix.file_imports[files[1]]
             IsCollection(item) == item.imp.collection # ""
         IN  SelectSeq([k \in DOMAIN imps |->
                           [file |-> files[1], k |-> k, imp |-> imps[k]]],
                       IsCollection)
             \o CollectionImports(ix, Tail(files))

\* the loop of lines 813-818 over the files of the index: the first directory
\* the import resolves to that is not indexed yet, <<>> for none:
\* [dir, imp]
RECURSIVE ResolveOver(_, _, _, _, _, _)
ResolveOver(odin_roots, dirs, keys, imp, indexed_dirs, any_order) ==
    IF keys = <<>> THEN [dir |-> <<>>, imp |-> imp]
    ELSE LET Resolved(r) ==
                 IF r.dir # <<>> /\ r.dir \notin indexed_dirs THEN r
                 ELSE ResolveOver(odin_roots, dirs, Tail(keys), r.imp,
                                  indexed_dirs, any_order)
         IN  Resolved(resolve_import_dir(odin_roots, dirs, keys[1], imp, any_order))

\* the ImportInfo object of a snapshot item is the one the index still
\* holds, unless its file was indexed again since
WriteBack(ix, item, imp) ==
    IF /\ item.file \in DOMAIN ix.file_imports
       /\ item.k <= Len(ix.file_imports[item.file])
       /\ ix.file_imports[item.file][item.k] = item.imp
    THEN [ix EXCEPT !.file_imports[item.file][item.k] = imp]
    ELSE ix

(* ---------------------------------------------------------------------- *)
(* plugin_loaded, the reindex command, _index_project_folders              *)
(* ---------------------------------------------------------------------- *)

\* _index_project_folders returned to its caller
Back(c) ==
    IF c = "loader" THEN [caller[c] EXCEPT !.pc = "loop", !.k = @ + 1]
    ELSE [caller[c] EXCEPT !.pc = "idle"]

\* plugin_loaded is called, once
PluginLoaded ==
    /\ caller["loader"].pc = "idle"
    /\ caller["loader"].k = 0
    /\ caller' = [caller EXCEPT !["loader"].pc = "loop", !["loader"].k = 1]
    /\ UNCHANGED <<_index, lock, th, rf, last, seen, calls, fs_dirs, _indexing, pass>>

\* for window in sublime.windows(): if window.folders(): ...
PluginLoadedWindow ==
    /\ caller["loader"].pc = "loop"
    /\ LET k == caller["loader"].k IN
       caller' = [caller EXCEPT !["loader"] =
           IF k > Len(Windows) THEN [@ EXCEPT !.pc = "idle"]
           ELSE IF folders(Windows[k]) # <<>>
           THEN [@ EXCEPT !.pc = "test", !.window = Windows[k]]
           ELSE [@ EXCEPT !.k = k + 1]]
    /\ UNCHANGED <<_index, lock, th, rf, last, seen, calls, fs_dirs, _indexing, pass>>

\* OdinReindexCommand.run is called for a view of window
OdinReindexCommandRun(window) ==
    /\ caller["ui"].pc = "idle"
    /\ caller["ui"].reindexes < MaxReindex
    /\ caller' = [caller EXCEPT !["ui"].pc = "clear", !["ui"].window = window,
                                !["ui"].reindexes = @ + 1]
    /\ UNCHANGED <<_index, lock, th, rf, last, seen, calls, fs_dirs, _indexing, pass>>

\* _index.clear(), under the index lock
ReindexClear ==
    /\ caller["ui"].pc = "clear"
    /\ lock.owner = ""
    /\ _index' = clear(_index)
    /\ caller' = [caller EXCEPT !["ui"].pc = "roots"]
    /\ seen' = SeenAfter(_index')
    /\ UNCHANGED <<lock, th, rf, last, calls, fs_dirs, _indexing, pass>>

\* _index._odin_roots.clear(), under no lock
ReindexRootsClear ==
    /\ caller["ui"].pc = "roots"
    /\ _index' = [_index EXCEPT !.odin_roots = <<>>]
    /\ caller' = [caller EXCEPT !["ui"].pc = "test"]
    /\ UNCHANGED <<lock, th, rf, last, seen, calls, fs_dirs, _indexing, pass>>

\* _index_project_folders, line 773: if _indexing: return
IndexProjectFoldersTest(c) ==
    /\ caller[c].pc = "test"
    /\ caller' = [caller EXCEPT ![c] =
                     IF _indexing THEN Back(c) ELSE [@ EXCEPT !.pc = "set"]]
    /\ UNCHANGED <<_index, lock, th, rf, last, seen, calls, fs_dirs, _indexing, pass>>

\* _index_project_folders, lines 775-796: _indexing = True, and the thread
\* that runs do_index is started
IndexProjectFoldersStart(c) ==
    /\ caller[c].pc = "set"
    /\ \E t \in Threads :
          /\ pass[t].pc = "off"
          /\ th[t].pc = "idle"
          /\ pass' = [pass EXCEPT ![t] =
                [PassOff EXCEPT !.pc = "folders", !.window = caller[c].window,
                                !.fi = 1]]
    /\ _indexing' = TRUE
    /\ caller' = [caller EXCEPT ![c] = Back(c)]
    /\ UNCHANGED <<_index, lock, th, rf, last, seen, calls, fs_dirs>>

(* ---------------------------------------------------------------------- *)
(* do_index: the background pass                                           *)
(* ---------------------------------------------------------------------- *)

\* the loop over window.folders() is at its next folder: find_odin_root, and
\* index_directory starts its walk; after the last folder the loop is left
\* and the iteration over _index._by_name.values() of line 791 begins
DoIndexFolder(t) ==
    /\ pass[t].pc = "folders"
    /\ IF pass[t].fi > Len(folders(pass[t].window))
       THEN /\ pass' = [pass EXCEPT ![t].pc = "count",
                                    ![t].used = Cardinality(DOMAIN _index.by_name)]
            /\ UNCHANGED _index
       ELSE LET folder == _normalize_path(folders(pass[t].window)[pass[t].fi]) IN
            /\ _index' = find_odin_root(_index, fs_dirs, folder).ix
            /\ pass' = [pass EXCEPT ![t].pc = "walk",
                                    ![t].todo = WalkFiles(folder),
                                    ![t].after = "imports_lock"]
    /\ UNCHANGED <<lock, th, rf, last, seen, calls, fs_dirs, _indexing, caller>>

\* what parse_file returns for each file of the disk
DiskParsed ==
    [f \in DiskFiles |-> parse_file(_normalize_path(f), None, ReadOk(DiskText(f)))]

\* index_directory calls index_file for the next file of its walk; the file
\* is read from the disk
IndexDirectoryFile(t) ==
    /\ pass[t].pc = "walk"
    /\ \E f \in pass[t].todo :
          /\ IndexFileParsed(t, f, None, ReadOk(DiskText(f)), DiskParsed[f])
          /\ pass' = [pass EXCEPT ![t].todo = @ \ {f}]
    /\ UNCHANGED <<calls, _indexing, caller>>

\* index_directory returns
IndexDirectoryDone(t) ==
    /\ pass[t].pc = "walk"
    /\ pass[t].todo = {}
    /\ th[t].pc = "idle"
    /\ pass' = [pass EXCEPT ![t].pc = pass[t].after]
    /\ UNCHANGED <<_index, lock, th, rf, last, seen, calls, fs_dirs, _indexing, caller>>

\* _index_imported_packages, lines 801-805: all_imports is taken under the
\* index lock, in the order of the dict
ImportedPackagesSnapshot(t) ==
    /\ pass[t].pc = "imports_lock"
    /\ lock.owner = ""
    /\ \E files \in Orders(DOMAIN _index.file_imports) :
          pass' = [pass EXCEPT ![t].pc = "imports",
                               ![t].all_imports = CollectionImports(_index, files),
                               ![t].j = 1, ![t].indexed_dirs = {}]
    /\ UNCHANGED <<_index, lock, th, rf, last, seen, calls, fs_dirs, _indexing, caller>>

\* _index_imported_packages, lines 807-818: the next collection import is
\* resolved from the files of the index, and the directory it names is
\* indexed; after the last import the folder is done
ImportedPackagesNext(t) ==
    /\ pass[t].pc = "imports"
    /\ LET j == pass[t].j IN
       IF j > Len(pass[t].all_imports)
       THEN /\ pass' = [pass EXCEPT ![t].pc = "folders", ![t].fi = @ + 1]
            /\ UNCHANGED _index
       ELSE \E keys \in Orders(DOMAIN _index.file_imports),
               any_order \in Orders(RootSet) :
               LET Resolved(r) ==
                       /\ _index' = WriteBack(_index, pass[t].all_imports[j], r.imp)
                       /\ pass' = [pass EXCEPT
                             ![t].all_imports[j].imp = r.imp,
                             ![t].j = j + 1,
                             ![t].indexed_dirs =
                                 IF r.dir # <<>> THEN @ \cup {r.dir} ELSE @,
                             ![t].todo = IF r.dir # <<>> THEN ListFiles(r.dir) ELSE {},
                             ![t].after = "imports",
                             ![t].pc = IF r.dir # <<>> THEN "walk" ELSE "imports"]
               IN  Resolved(ResolveOver(_index.odin_roots, fs_dirs, keys,
                                        pass[t].all_imports[j].imp,
                                        pass[t].indexed_dirs, any_order))
    /\ UNCHANGED <<lock, th, rf, last, seen, calls, fs_dirs, _indexing, caller>>

\* line 791 without the try of line 779: the RuntimeError ends the thread
\* and the flag stays as it is
DoIndexCount_NoFinally(t) ==
    /\ pass[t].pc = "count"
    /\ pass' = [pass EXCEPT ![t] =
                   IF Cardinality(DOMAIN _index.by_name) # pass[t].used
                   THEN PassOff
                   ELSE [@ EXCEPT !.pc = "finally", !.after = "counted"]]
    /\ UNCHANGED <<_index, lock, th, rf, last, seen, calls, fs_dirs, _indexing, caller>>

\* lines 791-792: the symbols are counted under no lock and the status
\* message is shown; a dict whose size has changed since the iteration began
\* raises RuntimeError (dictionary changed size during iteration). Either
\* way the finally clause is next
DoIndexCount(t) ==
    /\ pass[t].pc = "count"
    /\ pass' = [pass EXCEPT
                   ![t].pc = "finally",
                   ![t].after = IF Cardinality(DOMAIN _index.by_name) # pass[t].used
                                THEN "raised" ELSE "counted"]
    /\ UNCHANGED <<_index, lock, th, rf, last, seen, calls, fs_dirs, _indexing, caller>>

\* finally: _indexing = False, and the thread ends
DoIndexFinally(t) ==
    /\ pass[t].pc = "finally"
    /\ _indexing' = FALSE
    /\ pass' = [pass EXCEPT ![t] = PassOff]
    /\ last' = [NoLast EXCEPT !.op = "do_index", !.arg = <<pass[t].window>>,
                              !.result = <<pass[t].after>>]
    /\ UNCHANGED <<_index, lock, th, rf, seen, calls, fs_dirs, caller>>

\* the steps of a pass, those of its index_file calls included
DoIndex(t) ==
    \/ DoIndexFolder(t)
    \/ IndexDirectoryFile(t)
    \/ IndexDirectoryDone(t)
    \/ ImportedPackagesSnapshot(t)
    \/ ImportedPackagesNext(t)
    \/ DoIndexCount(t)
    \/ DoIndexFinally(t)
    \/ IndexFileReplace(t)
    \/ IndexFileInsert(t)
    \/ IndexFileRelease(t)
    \/ Return(t)

\* plugin_loaded on one thread, the reindex command on another, and the
\* passes they start
NextPass ==
    \/ PluginLoaded
    \/ PluginLoadedWindow
    \/ \E window \in Range(Windows) : OdinReindexCommandRun(window)
    \/ ReindexClear
    \/ ReindexRootsClear
    \/ \E c \in Callers : IndexProjectFoldersTest(c) \/ IndexProjectFoldersStart(c)
    \/ \E t \in Threads : DoIndex(t)

SpecPass == Init /\ [][NextPass]_vars

\* what a caller does once plugin_loaded or the reindex command was called
Caller(c) ==
    \/ c = "loader" /\ PluginLoadedWindow
    \/ c = "ui" /\ (ReindexClear \/ ReindexRootsClear)
    \/ IndexProjectFoldersTest(c)
    \/ IndexProjectFoldersStart(c)

\* the scheduler runs some thread that can take a step: a do_index thread,
\* or a caller inside plugin_loaded or inside the reindex command; whether
\* and when plugin_loaded and the command are called is left open
Running ==
    \/ \E t \in Threads : DoIndex(t)
    \/ \E c \in Callers : Caller(c)

SpecPassFair == SpecPass /\ WF_vars(Running)

(* ---------------------------------------------------------------------- *)
(* Import resolution: a project with imports, roots that become known, and *)
(* directories that come and go                                            *)
(* ---------------------------------------------------------------------- *)

FileM == <<"p", "/", "m.odin">>

FileN == <<"p2", "/", "n.odin">>

TextM ==
    << <<"package", "m">>,
       <<"import", "gfx", "\"", "vendor", ":", "graphics", "\"">>,
       <<"import", "\"", "lib", "\"">>,
       <<"W", "::", "struct", "{", "using", "l", ":", "lib", ".", "L", "}">> >>

TextN ==
    << <<"package", "n">>,
       <<"import", "\"", "vendor", ":", "graphics", "\"">> >>

\* the directories that are always there: project folder p with the
\* distribution in its Odin subdirectory, and folder p2 that is a distribution
DirsImp ==
    {<<"p">>, <<"p", "/", "Odin">>, <<"p", "/", "Odin", "/", "core">>,
     <<"p2">>, <<"p2", "/", "core">>, <<"p2", "/", "vendor">>}

\* the directories that are made and removed while the plugin runs
DirsComeAndGo ==
    {<<"p", "/", "Odin", "/", "vendor">>,
     <<"p", "/", "Odin", "/", "vendor", "/", "graphics">>,
     <<"p2", "/", "vendor", "/", "graphics">>,
     <<"p", "/", "lib">>}

ProjectFolders == {<<"p">>, <<"p2">>}

InitImp ==
    /\ _index = OdinIndex
    /\ lock = LockFree
    /\ th = [t \in Threads |-> ThreadIdle]
    /\ rf = RFIdle
    /\ last = NoLast
    /\ seen = {}
    /\ calls = 0
    /\ fs_dirs = DirsImp
    /\ _indexing = FALSE
    /\ pass = [t \in Threads |-> PassOff]
    /\ caller = [c \in Callers |-> CallerIdle]

\* a directory is made in a directory that exists, or an empty directory
\* is removed, by someone else
Mkdir(d) ==
    /\ Quiet
    /\ d \notin fs_dirs
    /\ Len(d) = 1 \/ dirname(d) \in fs_dirs
    /\ fs_dirs' = fs_dirs \cup {d}
    /\ UNCHANGED <<_index, lock, th, rf, last, seen, calls, passVars>>

Rmdir(d) ==
    /\ Quiet
    /\ d \in fs_dirs
    /\ \A e \in fs_dirs : Len(e) = 1 \/ dirname(e) # d
    /\ fs_dirs' = fs_dirs \ {d}
    /\ UNCHANGED <<_index, lock, th, rf, last, seen, calls, passVars>>

\* find_odin_root(project_folder) is called and returns; was holds the
\* roots known before and the directories there were
FindOdinRootCall(project_folder) ==
    /\ Quiet
    /\ LET Found(r) ==
               /\ _index' = r.ix
               /\ last' = [NoLast EXCEPT !.op = "find_odin_root",
                                          !.arg = project_folder,
                                          !.result = IF r.found THEN r.root ELSE <<>>,
                                          !.was = [roots |-> _index.odin_roots,
                                                   dirs |-> fs_dirs]]
       IN  Found(find_odin_root(_index, fs_dirs, project_folder))
    /\ UNCHANGED <<lock, th, rf, seen, calls, fs_dirs, passVars>>

\* resolve_import_dir(filepath, imp) is called with import number k of the
\* indexed file f, and returns; was holds the import as the call found it,
\* whether the call before was for the same import and resolved nothing, and
\* the directories, the roots and the table of roots there were
ResolveImportDirCall(filepath, f, k) ==
    /\ Quiet
    /\ f \in DOMAIN _index.file_imports
    /\ k \in DOMAIN _index.file_imports[f]
    /\ \E any_order \in Orders(RootSet) :
          LET Resolved(r) ==
                  /\ _index' = [_index EXCEPT !.file_imports[f][k] = r.imp]
                  /\ last' = [NoLast EXCEPT
                                 !.op = "resolve_import_dir",
                                 !.arg = <<filepath, f, k>>,
                                 !.result = r.dir,
                                 !.was = [imp |-> _index.file_imports[f][k],
                                          failed |-> /\ last.op = "resolve_import_dir"
                                                     /\ last.arg[2] = f
                                                     /\ last.arg[3] = k
                                                     /\ last.result = <<>>,
                                          dirs |-> fs_dirs, roots |-> RootSet,
                                          table |-> _index.odin_roots]]
          IN  Resolved(resolve_import_dir(_index.odin_roots, fs_dirs, filepath,
                                          _index.file_imports[f][k], any_order))
    /\ UNCHANGED <<lock, th, rf, seen, calls, fs_dirs, passVars>>

ImpCalls(t) ==
    \/ \E c \in {<<FileM, Given(TextM), ReadFails>>, <<FileN, Given(TextN), ReadFails>>} :
          IndexFileCall(t, c[1], c[2], c[3], TRUE)
    \/ RemoveFileCall(t, FileM, TRUE)
    \/ ClearCall(t, TRUE)

\* one caller that indexes, looks for roots and resolves imports, while
\* directories come and go
NextImp ==
    \/ ImpCalls("t1") \/ Steps("t1")
    \/ \E d \in DirsComeAndGo : Mkdir(d) \/ Rmdir(d)
    \/ \E folder \in ProjectFolders : FindOdinRootCall(folder)
    \/ \E filepath \in {FileM, FileN}, f \in {FileM, FileN}, k \in 1..2 :
          ResolveImportDirCall(filepath, f, k)

SpecImp == InitImp /\ [][NextImp]_vars

(* ---------------------------------------------------------------------- *)
(* Completion queries                                                      *)
(* ---------------------------------------------------------------------- *)

FileG == <<"g", "/", "dir.odin">>

FileH == <<"h", "/", "base.odin">>

TextG ==
    << <<"package", "g">>,
       <<"import", "\"", "..", "/", "h", "\"">>,
       <<"Dir", "::", "enum", "{", "North", ",", "South", ",", "East", ",", "West", "}">>,
       <<"Flags", "::", "bit_set", "[", "Dir", "]">>,
       <<"Pos", "::", "struct", "{", "using", "base", ":", "h", ".", "Base", ",",
         "d", ":", "Dir", "}">>,
       <<"move", "::", "proc", "(", "d", ":", "Dir", ")", "{", "}">>,
       <<"turn", "::", "proc", "(", "n", ":", "int", ",", "d", ":", "Dir", ")",
         "->", "bool", "{", "}">>,
       <<"Mask", "::", "bit_set", "[", "Pos", "]">> >>

TextH ==
    << <<"package", "h">>,
       <<"Base", "::", "struct", "{", "x", ":", "int", ",", "s", ":", "Speed", "}">>,
       <<"Speed", "::", "enum", "{", "Slow", ",", "Fast", "}">>,
       <<"move", "::", "proc", "(", "s", ":", "Speed", ")", "{", "}">>,
       <<"run", "::", "proc", "(", "s", ":", "Speed", ")", "{", "}">> >>

\* the text of the edited view up to the cursor
ViewTexts ==
    {<< <<"move", "(", ".">> >>,
     << <<"turn", "(", "1", ",", ".">> >>,
     << <<"turn", "(", "m", "[", "0", ",", "1", "]", ",", ".">> >>,
     << <<"turn", "(", "f", "(", "1", ",", "2", ")", ",", ".">> >>,
     << <<"turn", "(">>, <<"1", ",">>, <<".">> >>,
     << <<"h", ".", "run", "(", ".">> >>,
     << <<"x", ":", "Dir", "=", ".">> >>,
     << <<"if", "d", "==", ".">> >>,
     << <<"nope", "(", ".">> >>}

\* the chains before a dot the completions are asked for
Chains ==
    {<<"h">>, <<"h", "Base">>, <<"h", "Base", "s">>, <<"h", "nope">>, <<"Pos">>,
     <<"p", "d">>, <<"p", "s">>, <<"p", "x">>, <<"zz">>}

\* the type strings looked up, and what a variable of the view is declared as
TypeNames ==
    {<<"Dir">>, <<"Flags">>, <<"Mask">>, <<"^", "Pos">>, <<"h", ".", "Speed">>,
     <<"Speed">>, <<"nope">>, <<"nope", ".", "Dir">>}

VarTypes == {<<>>, <<"Pos">>, <<"Dir">>}

EditFiles == {FileG, FileH, <<"z", "/", "z.odin">>}

InitEdit ==
    /\ _index = OdinIndex
    /\ lock = LockFree
    /\ th = [t \in Threads |-> ThreadIdle]
    /\ rf = RFIdle
    /\ last = NoLast
    /\ seen = {}
    /\ calls = 0
    /\ fs_dirs = {<<"g">>, <<"h">>}
    /\ _indexing = FALSE
    /\ pass = [t \in Threads |-> PassOff]
    /\ caller = [c \in Callers |-> CallerIdle]

\* lookup_type(type_name, from_file) is called and returns
LookupTypeQuery(type_name, from_file) ==
    /\ Quiet
    /\ \E any_order \in Orders(RootSet) :
          LET Found(lk) ==
                  /\ _index' = lk.ix
                  /\ last' = [NoLast EXCEPT !.op = "lookup_type",
                                             !.arg = <<type_name, from_file>>,
                                             !.result = lk.sym]
          IN  Found(lookup_type(_index, fs_dirs, type_name, from_file, any_order))
    /\ UNCHANGED <<lock, th, rf, seen, calls, fs_dirs, passVars>>

\* resolve_enum_for_type(type_name, from_file) is called and returns; was
\* holds the index and the directories there were
ResolveEnumQuery(type_name, from_file) ==
    /\ Quiet
    /\ \E any_order \in Orders(RootSet) :
          LET Found(e) ==
                  /\ _index' = e.ix
                  /\ last' = [NoLast EXCEPT !.op = "resolve_enum_for_type",
                                             !.arg = <<type_name, from_file>>,
                                             !.result = e.sym,
                                             !.was = [ix |-> _index, dirs |-> fs_dirs]]
          IN  Found(resolve_enum_for_type(_index, fs_dirs, type_name, from_file,
                                          any_order))
    /\ UNCHANGED <<lock, th, rf, seen, calls, fs_dirs, passVars>>

\* _find_expected_enum_type(view, point) is called for a view of file
\* filepath and returns; was holds the index and the directories there were
ExpectedEnumQuery(filepath, lines, var_type) ==
    /\ Quiet
    /\ \E any_order \in Orders(RootSet) :
          LET Found(e) ==
                  /\ _index' = e.ix
                  /\ last' = [NoLast EXCEPT !.op = "_find_expected_enum_type",
                                             !.arg = <<filepath, lines, var_type>>,
                                             !.result = e.sym,
                                             !.was = [ix |-> _index, dirs |-> fs_dirs]]
          IN  Found(_find_expected_enum_type(_index, fs_dirs, filepath, lines,
                                             var_type, any_order))
    /\ UNCHANGED <<lock, th, rf, seen, calls, fs_dirs, passVars>>

\* _resolve_type_chain(view, filepath, chain_parts) is called and returns,
\* or raises; was holds the index and the directories there were
TypeChainQuery(filepath, chain_parts, var_type) ==
    /\ Quiet
    /\ \E any_order \in Orders(RootSet) :
          LET Found(c) ==
                  /\ _index' = c.ix
                  /\ last' = [NoLast EXCEPT !.op = "_resolve_type_chain",
                                             !.arg = <<filepath, chain_parts, var_type>>,
                                             !.result = [kind |-> c.kind, sym |-> c.sym,
                                                         dir |-> c.dir],
                                             !.was = [ix |-> _index, dirs |-> fs_dirs]]
          IN  Found(_resolve_type_chain(_index, fs_dirs, filepath, chain_parts,
                                        var_type, any_order))
    /\ UNCHANGED <<lock, th, rf, seen, calls, fs_dirs, passVars>>

EditCalls(t) ==
    \/ \E c \in {<<FileG, Given(TextG), ReadFails>>, <<FileH, Given(TextH), ReadFails>>} :
          IndexFileCall(t, c[1], c[2], c[3], TRUE)
    \/ RemoveFileCall(t, FileH, TRUE)
    \/ ClearCall(t, TRUE)

EditQueries ==
    \/ \E name \in {"Dir", "move", "nope"} : QueryByName(name, TRUE)
    \/ \E d \in {<<"g">>, <<"h">>, <<"z">>} : QueryPackage(d, TRUE)
    \/ ResolveFieldsCall(TRUE)
    \/ ResolveFieldsStep
    \/ ResolveFieldsReturn
    \/ \E type_name \in TypeNames, from_file \in EditFiles :
          \/ LookupTypeQuery(type_name, from_file)
          \/ ResolveEnumQuery(type_name, from_file)
    \/ \E filepath \in EditFiles, lines \in ViewTexts, var_type \in VarTypes :
          ExpectedEnumQuery(filepath, lines, var_type)
    \/ \E filepath \in EditFiles, chain_parts \in Chains, var_type \in VarTypes :
          TypeChainQuery(filepath, chain_parts, var_type)

\* one caller that indexes two packages and asks what the completions ask,
\* while the imported package's directory comes and goes
NextEdit ==
    \/ EditCalls("t1") \/ Steps("t1")
    \/ Mkdir(<<"h">>) \/ Rmdir(<<"h">>)
    \/ EditQueries

SpecEdit == InitEdit /\ [][NextEdit]_vars

\* a file of package g with a struct that inherits from itself
FileL == <<"g", "/", "loop.odin">>

TextL ==
    << <<"package", "g">>,
       <<"Loop", "::", "struct", "{", "using", "me", ":", "Loop", "}">> >>

\* chains of more than one segment, most of which fail at a hop, and what
\* the variable of the view is declared as
HopChains ==
    {<<"h", "nope">>, <<"h", "Base", "nope">>, <<"h", "Base", "s">>,
     <<"h", "Speed", "x">>, <<"p", "nope">>, <<"p", "d", "x">>, <<"p", "x">>,
     <<"p", "s">>, <<"zz", "nope">>}

HopVarTypes == {<<>>, <<"Pos">>, <<"Loop">>}

\* one caller that indexes the three files and resolves chains from the
\* files of package g and h, while the imported package's directory comes
\* and goes
NextChain ==
    \/ EditCalls("t1")
    \/ IndexFileCall("t1", FileL, Given(TextL), ReadFails, TRUE)
    \/ Steps("t1")
    \/ Mkdir(<<"h">>) \/ Rmdir(<<"h">>)
    \/ \E filepath \in {FileG, FileH}, chain_parts \in HopChains,
          var_type \in HopVarTypes :
          TypeChainQuery(filepath, chain_parts, var_type)

SpecChain == InitEdit /\ [][NextChain]_vars

(* ---------------------------------------------------------------------- *)
(* parse_file on its own                                                   *)
(* ---------------------------------------------------------------------- *)

\* the longest text parsed, in lines
MaxLines == 4

\* the lines the parsed texts are made of
ParseLines ==
    {<<"f", "::", "proc", "(">>,
     <<"a", ":", "int", ",">>,
     <<"b", ":", "string", ",">>,
     <<"a", ",", "b", ":", "int", ",">>,
     <<")", "->", "bool", "{">>,
     <<"}">>,
     <<"g", "::", "proc", "(", "x", ":", "int", ")", "{", "}">>}

\* every text of one to MaxLines of these lines
ParseTexts == UNION {[1..n -> ParseLines] : n \in 1..MaxLines}

\* parse_file is about to be called with a file path and a text
InitParse ==
    /\ _index = OdinIndex
    /\ lock = LockFree
    /\ th = [t \in Threads |-> ThreadIdle]
    /\ rf = RFIdle
    /\ last \in {[NoLast EXCEPT !.op = "call parse_file", !.arg = <<FileG, lines>>] :
                    lines \in ParseTexts}
    /\ seen = {}
    /\ calls = 0
    /\ fs_dirs = {}
    /\ _indexing = FALSE
    /\ pass = [t \in Threads |-> PassOff]
    /\ caller = [c \in Callers |-> CallerIdle]

\* parse_file(filepath, content) is called and returns
ParseFileCall ==
    /\ last.op = "call parse_file"
    /\ last' = [last EXCEPT !.op = "parse_file",
                            !.parsed = parse_file(last.arg[1], Given(last.arg[2]),
                                                  ReadFails)]
    /\ UNCHANGED <<_index, lock, th, rf, seen, calls, fs_dirs, passVars>>

NextParse == ParseFileCall

SpecParse == InitParse /\ [][NextParse]_vars

\* the lines the texts of declarations are made of: package, import and
\* attribute lines, one-line declarations, the openers of the five
\* collections, their closers, a field line, a statement, an empty line
DeclLines ==
    {<<"package", "h">>,
     <<"import", "\"", "h", "\"">>,
     <<"@", "(", "private", ")">>,
     <<"@", "(", "require_results", ")">>,
     <<"K", "::", "1">>,
     <<"x", ":=", "5">>,
     <<"S", "::", "struct", "{">>,
     <<"E", "::", "enum", "{">>,
     <<"U", "::", "union", "{">>,
     <<"v", ":=", "T", "{">>,
     <<"f", "::", "proc", "(">>,
     <<"g", "::", "proc", "(", "a", ",", "b", ":", "int", ")", "{">>,
     <<"}">>,
     <<")", "{">>,
     <<"a", ":", "int", ",">>,
     <<"y", "(", ")">>,
     <<>>}

\* every text of one to MaxLines of these lines
DeclTexts == UNION {[1..n -> DeclLines] : n \in 1..MaxLines}

\* parse_file is about to be called with a file path and a text of
\* declarations
InitDecl ==
    /\ _index = OdinIndex
    /\ lock = LockFree
    /\ th = [t \in Threads |-> ThreadIdle]
    /\ rf = RFIdle
    /\ last \in {[NoLast EXCEPT !.op = "call parse_file", !.arg = <<FileG, lines>>] :
                    lines \in DeclTexts}
    /\ seen = {}
    /\ calls = 0
    /\ fs_dirs = {}
    /\ _indexing = FALSE
    /\ pass = [t \in Threads |-> PassOff]
    /\ caller = [c \in Callers |-> CallerIdle]

SpecDecl == InitDecl /\ [][NextParse]_vars

\* the lines the texts with block comments are made of: declarations, a
\* package and an import line, and lines that open and close block comments
\* at their start, in their middle and at their end
CommentLines ==
    {<<"K", "::", "1">>,
     <<"x", ":=", "5">>,
     <<"package", "h">>,
     <<"import", "\"", "h", "\"">>,
     <<"/*">>,
     <<"*/">>,
     <<"M", "::", "3", "/*", "c">>,
     <<"c", "*/", "L", "::", "2">>,
     <<"/*", "a", "*/", "/*", "b">>,
     <<"/*", "a", "*/", "N", "::", "4">>,
     <<"*/", "/*">>}

\* every text of one to MaxLines of these lines
CommentTexts == UNION {[1..n -> CommentLines] : n \in 1..MaxLines}

\* parse_file is about to be called with a file path and a text with block
\* comments
InitComment ==
    /\ _index = OdinIndex
    /\ lock = LockFree
    /\ th = [t \in Threads |-> ThreadIdle]
    /\ rf = RFIdle
    /\ last \in {[NoLast EXCEPT !.op = "call parse_file", !.arg = <<FileG, lines>>] :
                    lines \in CommentTexts}
    /\ seen = {}
    /\ calls = 0
    /\ fs_dirs = {}
    /\ _indexing = FALSE
    /\ pass = [t \in Threads |-> PassOff]
    /\ caller = [c \in Callers |-> CallerIdle]

SpecComment == InitComment /\ [][NextParse]_vars

(* ---------------------------------------------------------------------- *)
(* Properties                                                              *)
(* ---------------------------------------------------------------------- *)

\* the four stores the symbols and imports live in
Stores(ix) ==
    [by_name |-> ix.by_name, by_pkg |-> ix.by_pkg, file_syms |-> ix.file_syms,
     file_imports |-> ix.file_imports]

Returned(t, op) == th[t].pc = "done" /\ th[t].op = op

\* the symbols of a list that carry a name
Named(syms, name) == LET Is(sym) == sym.name = name IN SelectSeq(syms, Is)

SymNames(syms) == {syms[i].name : i \in DOMAIN syms}

\* name -> the last symbol of that name in a list
LastDeclared(syms) ==
    [n \in SymNames(syms) |-> LET l == Named(syms, n) IN l[Len(l)]]

\* what a type string looks up to from a file in the current index
LookupNow(type_name, from_file) ==
    lookup_type(_index, fs_dirs, type_name, from_file, <<>>).sym

\* the struct parents of a struct symbol, in using order, each <<>> or <<Symbol>>
Parents(sym) ==
    LET Struct(p) == IF p # <<>> /\ p[1].kind = "struct" THEN p ELSE <<>> IN
    [i \in DOMAIN sym.using_types |->
        Struct(LookupNow(sym.using_types[i], sym.file))]

\* C5: index_file is idempotent.  When index_file(F, T) has returned, calling
\* it once more with the same text leaves by_name, by_pkg, file_syms and
\* file_imports equal by value; and when the call that just returned was itself
\* the second of two equal calls in a row, it left the four stores as it found
\* them.
C5_IndexFileIdempotent ==
    \A t \in Threads :
        Returned(t, "index_file") =>
            /\ Stores(IndexFileWhole(_index, th[t].filepath, th[t].parsed))
                 = Stores(_index)
            /\ th[t].again => Stores(_index) = Stores(th[t].before)

\* a second equal index_file in a row has returned, for a file with symbols
\* whose names another file of the directory declares too
C5_Witness ==
    \E t \in Threads :
        /\ Returned(t, "index_file")
        /\ th[t].again
        /\ th[t].parsed.symbols # <<>>
        /\ th[t].parsed.imports = <<>>
        /\ \E f \in DOMAIN _index.file_syms :
              /\ f # th[t].filepath
              /\ SymNames(_index.file_syms[f]) \cap SymNames(th[t].parsed.symbols) # {}

\* C9: after index_file(path, text) has returned, the per-file stores hold for
\* path exactly the symbols and imports parsed from text, by_name holds of
\* path's symbols exactly the parsed ones (under each name, in order), and the
\* entries of by_pkg that belong to path are the last-declared parsed symbol of
\* each name, all in path's own package directory.
C9_IndexFileReplacesAll ==
    \A t \in Threads :
        Returned(t, "index_file") =>
            LET fp == th[t].filepath
                syms == th[t].parsed.symbols
            IN  /\ fp \in DOMAIN _index.file_syms
                /\ _index.file_syms[fp] = syms
                /\ fp \in DOMAIN _index.file_imports
                /\ _index.file_imports[fp] = th[t].parsed.imports
                /\ SymNames(syms) \subseteq DOMAIN _index.by_name
                /\ \A n \in DOMAIN _index.by_name :
                      OfFileSeq(_index.by_name[n], fp) = Named(syms, n)
                /\ \A d \in DOMAIN _index.by_pkg :
                      OfFileDict(_index.by_pkg[d], fp) =
                          IF d = dirname(fp) THEN LastDeclared(syms) ELSE EmptyDict
                /\ syms # <<>> => dirname(fp) \in DOMAIN _index.by_pkg

\* index_file has returned for a file that was indexed before with other
\* symbols and imports
C9_Witness ==
    \E t \in Threads :
        /\ Returned(t, "index_file")
        /\ th[t].filepath \in DOMAIN th[t].before.file_syms
        /\ LET was == th[t].before.file_syms[th[t].filepath] IN
           /\ was # <<>>
           /\ th[t].parsed.symbols # <<>>
           /\ SymNames(was) \ SymNames(th[t].parsed.symbols) # {}
           /\ SymNames(was) \cap SymNames(th[t].parsed.symbols) # {}
        /\ th[t].before.file_imports[th[t].filepath] # th[t].parsed.imports

\* the names that only filepath declared in index ix
OnlyIn(ix, filepath) ==
    {n \in DOMAIN ix.by_name :
        /\ ix.by_name[n] # <<>>
        /\ \A i \in DOMAIN ix.by_name[n] : ix.by_name[n][i].file = filepath}

\* C10: after remove_file(path) has returned, get_symbols_by_name is empty for
\* every name that only path declared, and path has no entry in file_syms and
\* file_imports.
C10_RemoveFileDrops ==
    \A t \in Threads :
        Returned(t, "remove_file") =>
            /\ \A n \in OnlyIn(th[t].before, th[t].filepath) :
                  get_symbols_by_name(_index, n) = <<>>
            /\ th[t].filepath \notin DOMAIN _index.file_syms
            /\ th[t].filepath \notin DOMAIN _index.file_imports

\* remove_file has returned for an indexed file that alone declared a name and
\* shared another name with a second file
C10_Witness ==
    \E t \in Threads :
        /\ Returned(t, "remove_file")
        /\ th[t].filepath \in DOMAIN th[t].before.file_syms
        /\ th[t].filepath \in DOMAIN th[t].before.file_imports
        /\ OnlyIn(th[t].before, th[t].filepath) # {}
        /\ SymNames(th[t].before.file_syms[th[t].filepath])
              \ OnlyIn(th[t].before, th[t].filepath) # {}

\* C11: index_file on a path whose file cannot be read (no content given, the
\* read fails) returns; the path then has an empty symbol list and an empty
\* import list, no by-name list and no package dict holds a symbol of the
\* path, and the index equals the index that indexing the path with the empty
\* text leads to.
C11_UnreadableIsEmpty ==
    \A t \in Threads :
        (Returned(t, "index_file") /\ th[t].unread) =>
            LET fp == th[t].filepath IN
            /\ fp \in DOMAIN _index.file_syms /\ _index.file_syms[fp] = <<>>
            /\ fp \in DOMAIN _index.file_imports /\ _index.file_imports[fp] = <<>>
            /\ \A n \in DOMAIN _index.by_name : OfFileSeq(_index.by_name[n], fp) = <<>>
            /\ \A d \in DOMAIN _index.by_pkg : OfFileDict(_index.by_pkg[d], fp) = EmptyDict
            /\ _index = IndexFileWhole(th[t].before, fp,
                                       parse_file(fp, Given(<<>>), ReadFails))

\* index_file has returned for an unreadable file that was indexed before with
\* symbols and imports
C11_Witness ==
    \E t \in Threads :
        /\ Returned(t, "index_file")
        /\ th[t].unread
        /\ th[t].filepath \in DOMAIN th[t].before.file_syms
        /\ th[t].before.file_syms[th[t].filepath] # <<>>
        /\ th[t].before.file_imports[th[t].filepath] # <<>>

\* the import a resolve_import_dir call that has returned was made for, as
\* the index holds it now
ImportNow == _index.file_imports[last.arg[2]][last.arg[3]]

\* C12: when resolve_import_dir has returned a directory, the Import's
\* resolved_dir holds that directory; and a call that found resolved_dir
\* filled returns it as it is and leaves the Import alone, whatever the
\* directories and the roots are by then and whatever file path it is made
\* with.
C12_ResolvedDirIsCached ==
    last.op = "resolve_import_dir" =>
        /\ last.result # <<>> => ImportNow.resolved_dir = last.result
        /\ last.was.imp.resolved_dir # <<>> =>
              /\ last.result = last.was.imp.resolved_dir
              /\ ImportNow = last.was.imp

\* a call for a collection import, made with the path of another file, found
\* the directory cached that is gone by now
C12_Witness ==
    /\ last.op = "resolve_import_dir"
    /\ last.was.imp.collection # ""
    /\ last.was.imp.resolved_dir # <<>>
    /\ last.was.imp.resolved_dir \notin last.was.dirs
    /\ last.arg[1] # last.arg[2]
    /\ last.result # <<>>

\* the directories an import may resolve to from a file of a directory (paths
\* of the form dir/name, relative paths without dots)
CandidateDirs(filepath, imp, roots) ==
    IF imp.collection # ""
    THEN {root \o <<"/", imp.collection, "/">> \o imp.rel_path : root \in roots}
    ELSE {SubSeq(filepath, 1, Len(filepath) - 2) \o <<"/">> \o imp.rel_path}

\* C13: a resolve_import_dir call that returns nothing leaves resolved_dir
\* empty; and a call that finds resolved_dir empty resolves from the
\* directories there are at the call: it returns nothing exactly when no
\* candidate directory exists, and a candidate that exists otherwise, also
\* when the call before for this Import returned nothing.
C13_FailureIsRetried ==
    last.op = "resolve_import_dir" =>
        /\ last.result = <<>> => ImportNow.resolved_dir = <<>>
        /\ last.was.imp.resolved_dir = <<>> =>
              LET there == CandidateDirs(last.arg[1], last.was.imp, last.was.roots)
                              \cap last.was.dirs
              IN  IF there = {} THEN last.result = <<>> ELSE last.result \in there

\* a call resolved the Import for which the call before had returned nothing
C13_Witness ==
    /\ last.op = "resolve_import_dir"
    /\ last.was.failed
    /\ last.was.imp.resolved_dir = <<>>
    /\ last.result # <<>>
    /\ ImportNow.resolved_dir = last.result

\* in this step the imports of file f leave the index or are replaced:
\* index_file(f) replaces, remove_file(f) or clear runs
ImportsReplaced(f) ==
    \E t \in Threads :
        \/ th[t].pc = "index_lock" /\ th'[t].pc = "index_insert" /\ th[t].filepath = f
        \/ th[t].pc = "remove_lock" /\ th'[t].pc = "done" /\ th[t].filepath = f
        \/ th[t].pc = "clear_lock" /\ th'[t].pc = "done"

\* C14: an Import whose resolved_dir is filled keeps it, whole and unchanged,
\* in every step other than the replacement of its file's imports (index_file
\* or remove_file of the file, clear): no resolve_import_dir call, from any
\* file path, no find_odin_root call and no change of the directories changes
\* or empties it.
C14_ResolvedDirStays ==
    [][\A f \in DOMAIN _index.file_imports :
          \A k \in DOMAIN _index.file_imports[f] :
              _index.file_imports[f][k].resolved_dir # <<>> =>
                  \/ ImportsReplaced(f)
                  \/ /\ f \in DOMAIN _index'.file_imports
                     /\ k \in DOMAIN _index'.file_imports[f]
                     /\ _index'.file_imports[f][k] = _index.file_imports[f][k]]_vars

\* a resolve_import_dir call has returned for an Import whose resolved
\* directory was filled and is gone, after a root became known
C14_Witness ==
    /\ last.op = "resolve_import_dir"
    /\ last.was.imp.resolved_dir # <<>>
    /\ last.was.imp.resolved_dir \notin last.was.dirs
    /\ Cardinality(last.was.roots) = 2
    /\ ImportNow.resolved_dir = last.was.imp.resolved_dir

\* sym embeds a struct that embeds sym
InTwoCycle(sym) ==
    /\ sym.kind = "struct"
    /\ \E i \in DOMAIN sym.using_types :
          LET b == Parents(sym)[i] IN
          /\ b # <<>>
          /\ b[1] # sym
          /\ \E j \in DOMAIN b[1].using_types : Parents(b[1])[j] = <<sym>>

\* what resolve_fields is to return for a struct in a cycle with parent b
OwnPlus(sym, b) ==
    [f \in (DOMAIN sym.fields) \cup (DOMAIN b.fields) |->
        IF f \in DOMAIN sym.fields THEN sym.fields[f] ELSE b.fields[f]]

\* C6: for structs A and B that embed each other, resolve_fields(A) does not
\* recurse without bound: it raises no RecursionError, and it returns A's own
\* fields plus B's own fields.
C6_CycleTerminates ==
    (rf.arg # <<>> /\ InTwoCycle(rf.arg[1])) =>
        /\ rf.status # "RecursionError"
        /\ rf.status = "done" =>
              \E i \in DOMAIN rf.arg[1].using_types :
                 LET b == Parents(rf.arg[1])[i] IN
                 b # <<>> /\ rf.result = OwnPlus(rf.arg[1], b[1])

\* C7: in the result of resolve_fields(T), a field name that T declares itself
\* and that a using-parent S declares too maps to T's own type string.
C7_ChildOverridesParent ==
    (rf.status = "done" /\ rf.arg # <<>> /\ rf.arg[1].kind = "struct") =>
        LET T == rf.arg[1] IN
        \A i \in DOMAIN T.using_types :
            LET S == Parents(T)[i] IN
            S # <<>> =>
                \A f \in (DOMAIN T.fields) \cap (DOMAIN S[1].fields) :
                    f \in DOMAIN rf.result /\ rf.result[f] = T.fields[f]

\* C8: in the result of resolve_fields, a field name that the struct does not
\* declare and that two or more of its using-parents declare maps to the type
\* string of the earliest of these parents in using order.
C8_EarlierParentWins ==
    (rf.status = "done" /\ rf.arg # <<>> /\ rf.arg[1].kind = "struct") =>
        LET M == rf.arg[1]
            P == Parents(M)
            Declares(i, f) == P[i] # <<>> /\ f \in DOMAIN P[i][1].fields
        IN  \A i \in DOMAIN P, j \in DOMAIN P :
              i < j /\ P[i] # <<>> /\ P[j] # <<>> =>
                \A f \in ((DOMAIN P[i][1].fields) \cap (DOMAIN P[j][1].fields))
                          \ DOMAIN M.fields :
                    (\A k \in 1..(i - 1) : ~Declares(k, f)) =>
                        f \in DOMAIN rf.result /\ rf.result[f] = P[i][1].fields[f]

\* C1: a get_symbols_by_name or get_package_symbols query that runs while
\* index_file replaces the entries of an indexed file returns, of that file,
\* either what it returned before the replacement or what it returns after
\* it.
C1_QueriesSeeWholeFile ==
    /\ last.op = "get_symbols_by_name" =>
          \A v \in last.views :
             v.indexed => OfFileSeq(last.result, v.filepath) \in {v.old, v.new}
    /\ last.op = "get_package_symbols" =>
          \A v \in last.views :
             v.indexed => OfFileDict(last.result, v.filepath) \in {v.old, v.new}

\* the field map resolve_fields returns for sym on the one index state ix
MergeOn(ix, sym) == resolve_fields(ix, fs_dirs, sym, <<>>).result

\* the index states a resolve_fields call that has just finished ran
\* alongside: those with the lock free during the call, and those the
\* index_file calls still in progress lead to
SingleStates ==
    seen \cup {IndexFileWhole(th[t].before, th[t].filepath, th[t].parsed) :
                  t \in Replacing}

\* C2: the field map resolve_fields(struct) returns is the merge computed on
\* one index state: the state before or the state after an index_file,
\* remove_file or clear that ran during the call.
C2_ResolveFieldsOneState ==
    (rf.status = "done" /\ rf.arg # <<>> /\ rf.arg[1].kind = "struct") =>
        \E ix \in SingleStates : rf.result = MergeOn(ix, rf.arg)

\* no do_index runs and nobody is inside a command or plugin_loaded
PassesFinished ==
    /\ \A t \in Threads : pass[t].pc = "off"
    /\ \A c \in Callers : caller[c].pc = "idle"

\* C3: when the reindex command was run for a window and all passes have
\* finished, every source file of the window's project folders is in the index.
C3_ReindexIndexesAll ==
    (caller["ui"].reindexes > 0 /\ PassesFinished) =>
        \A i \in DOMAIN folders(caller["ui"].window) :
            WalkFiles(folders(caller["ui"].window)[i]) \subseteq DOMAIN _index.file_syms

\* C4: at no time do two do_index threads run.
C4_OnePassAtOnce ==
    Cardinality({t \in Threads : pass[t].pc # "off"}) <= 1

\* the operations that only ask the index
QueryOps ==
    {"get_symbols_by_name", "get_package_symbols", "resolve_fields", "lookup_type",
     "resolve_enum_for_type", "_find_expected_enum_type", "_resolve_type_chain"}

\* a step of a query: a query returns, or resolve_fields is called or makes
\* its next lookup
IsQueryStep ==
    \/ rf' # rf
    \/ last'.op \in QueryOps /\ (last'.op # last.op \/ last' # last)

\* the stores as the objects they hold: the by-name lists, the by-package
\* dicts and the per-file symbol lists with every attribute of every Symbol,
\* and the per-file import lists with the Imports they hold.  An Import is
\* told by what it was parsed to; its resolved_dir is the cache that
\* resolve_import_dir keeps on the Import (C12 to C14), no entry of a store.
StoredObjects(ix) ==
    [by_name |-> ix.by_name, by_pkg |-> ix.by_pkg, file_syms |-> ix.file_syms,
     file_imports |->
        [f \in DOMAIN ix.file_imports |->
            [k \in DOMAIN ix.file_imports[f] |->
                [ix.file_imports[f][k] EXCEPT !.resolved_dir = <<>>]]]]

C16_FileNamesUnique ==
    \A f \in DOMAIN _index.file_syms :
        \A i, j \in DOMAIN _index.file_syms[f] :
            i # j => _index.file_syms[f][i].name # _index.file_syms[f][j].name

\* every Symbol the index holds, in any of its stores
StoredSymbols(ix) ==
    UNION {Range(ix.by_name[n]) : n \in DOMAIN ix.by_name}
    \cup UNION {Range(ix.by_pkg[d]) : d \in DOMAIN ix.by_pkg}
    \cup UNION {Range(ix.file_syms[f]) : f \in DOMAIN ix.file_syms}

\* the texts file f is indexed with
IndexedTexts(f) ==
    {IF c[2].given THEN c[2].lines ELSE c[3].lines :
        c \in {c \in IndexCalls : _normalize_path(c[1]) = f}}

\* the tokens of the lines of a text from line ln on
RECURSIVE TokensFrom(_, _)
TokensFrom(lines, ln) ==
    IF ln > Len(lines) THEN <<>> ELSE lines[ln] \o TokensFrom(lines, ln + 1)

\* the body of the struct declared on line ln: the tokens between its
\* opening brace and the next closing brace
StructBody(lines, ln) ==
    LET toks == TokensFrom(lines, ln)
        open == FirstIndex(toks, "{")
        rest == Drop(toks, open)
        close == FirstIndex(rest, "}")
    IN  IF open = 0 THEN <<>> ELSE IF close = 0 THEN rest ELSE Take(rest, close - 1)

\* a struct body writes the field name: type
Writes(body, name, type) ==
    \E i \in DOMAIN body :
        /\ body[i] = name
        /\ i = 1 \/ body[i - 1] \in {",", "using"}
        /\ i + 1 + Len(type) <= Len(body)
        /\ body[i + 1] = ":"
        /\ SubSeq(body, i + 2, i + 1 + Len(type)) = type
        /\ i + 1 + Len(type) = Len(body) \/ body[i + 2 + Len(type)] = ","

\* C17: in every reachable index state the fields map of a stored struct
\* Symbol holds only fields that the struct's own body writes, with the type
\* written there; no field of a using-parent gets into it, whatever
\* resolve_fields calls and reindexes there were.
C17_StoredFieldsAreOwn ==
    \A sym \in StoredSymbols(_index) :
        sym.kind = "struct" =>
            \E lines \in IndexedTexts(sym.file) :
                /\ sym.line <= Len(lines)
                /\ IsPrefix(<<sym.name, "::", "struct">>, lines[sym.line])
                /\ \A n \in DOMAIN sym.fields :
                      Writes(StructBody(lines, sym.line), n, sym.fields[n])

\* resolve_fields has returned, for a struct that is still stored, a map
\* with fields of a using-parent that the struct's own fields do not have
C17_Witness ==
    /\ last.op = "resolve_fields"
    /\ last.result[1] = "done"
    /\ last.arg # <<>>
    /\ last.arg[1] \in StoredSymbols(_index)
    /\ last.arg[1].using_types # <<>>
    /\ (DOMAIN last.result[2]) \ (DOMAIN last.arg[1].fields) # {}

\* C18: when index_file(F) has returned, get_package_symbols of F's
\* directory maps every name F declares to F's last declaration of it: a
\* later declaration in the file has replaced an earlier one, and F's symbol
\* has replaced the symbol another file of the directory, indexed earlier,
\* gave the name; a name F does not declare keeps the symbol another file
\* gave it.
C18_LastDeclaredWins ==
    \A t \in Threads :
        Returned(t, "index_file") =>
            LET fp == th[t].filepath
                was == get_package_symbols(th[t].before, dirname(fp))
                now == get_package_symbols(_index, dirname(fp))
                mine == LastDeclared(th[t].parsed.symbols)
            IN  /\ \A n \in DOMAIN mine : n \in DOMAIN now /\ now[n] = mine[n]
                /\ \A n \in (DOMAIN was) \ (DOMAIN mine) :
                      was[n].file # fp => n \in DOMAIN now /\ now[n] = was[n]

\* index_file has returned for a file that declares a name twice, a name
\* that a file of the same directory indexed before declares as well
C18_Witness ==
    \E t \in Threads :
        /\ Returned(t, "index_file")
        /\ \E n \in SymNames(th[t].parsed.symbols) :
              /\ Len(Named(th[t].parsed.symbols, n)) = 2
              /\ Named(th[t].parsed.symbols, n)[1] # Named(th[t].parsed.symbols, n)[2]
              /\ n \in DOMAIN get_package_symbols(th[t].before, dirname(th[t].filepath))
              /\ get_package_symbols(th[t].before, dirname(th[t].filepath))[n].file
                    # th[t].filepath

\* the call a text ends in the arguments of: walking back from token i, the
\* nearest open paren that is not closed before the end, with the number of
\* commas passed outside any closed pair of brackets:
\* [func_name, param_index], func_name <<>> when there is no such call
RECURSIVE ArgumentFrom(_, _, _, _)
ArgumentFrom(text, i, depth, commas) ==
    IF i < 1 THEN [func_name |-> <<>>, param_index |-> 0]
    ELSE IF text[i] \in Closers THEN ArgumentFrom(text, i - 1, depth + 1, commas)
    ELSE IF text[i] \in Openers
    THEN IF depth > 0 THEN ArgumentFrom(text, i - 1, depth - 1, commas)
         ELSE IF text[i] = "("
         THEN [func_name |-> SubSeq(text, NameStart(text, i - 1), i - 1),
               param_index |-> commas]
         ELSE [func_name |-> <<>>, param_index |-> 0]
    ELSE IF text[i] = "," /\ depth = 0 THEN ArgumentFrom(text, i - 1, depth, commas + 1)
    ELSE ArgumentFrom(text, i - 1, depth, commas)

ArgumentPosition(lines) ==
    LET text == TextBefore(lines) IN ArgumentFrom(text, Len(text) - 1, 0, 0)

\* the text file f of the two packages is indexed with
EditText(f) == IF f = FileG THEN TextG ELSE TextH

\* C19: when the cursor is directly after a dot in argument position i of a
\* call to p, i the number of top-level commas between the nearest unclosed
\* open paren and the cursor, and some procedure symbol named p has at index
\* i a parameter whose type resolves to an enum, then the expected enum is
\* the enum of the first such symbol, with the variants of its declaration
\* in the order they are written.
C19_SelectorYieldsEnum ==
    last.op = "_find_expected_enum_type" =>
        LET filepath == last.arg[1]
            lines == last.arg[2]
            call == ArgumentPosition(lines)
            syms == get_symbols_by_name(last.was.ix, Glue(call.func_name))
            Enum(k) ==
                IF syms[k].kind = "proc" /\ call.param_index < Len(syms[k].params)
                THEN resolve_enum_for_type(last.was.ix, last.was.dirs,
                                           syms[k].params[call.param_index + 1][2],
                                           filepath, <<>>).sym
                ELSE <<>>
            winners == {k \in DOMAIN syms : Enum(k) # <<>>}
        IN  (lines[Len(lines)][Len(lines[Len(lines)])] = "."
             /\ call.func_name # <<>> /\ winners # {}) =>
                LET E == Enum(CHOOSE k \in winners : \A j \in winners : k <= j) IN
                /\ last.result = E
                /\ E[1].kind = "enum"
                /\ E[1].variants =
                      SelectSeq(StructBody(EditText(E[1].file), E[1].line), IsIdent)

\* a line that opens a procedure declaration and its parameter list
IsProcOpening(line) ==
    /\ Len(line) = 4
    /\ IsIdent(line[1])
    /\ SubSeq(line, 2, 4) = <<"::", "proc", "(">>

\* a line of parameters: names, a colon, a type of one word, a comma
IsParamLine(line) ==
    /\ Len(line) >= 4
    /\ line[Len(line)] = ","
    /\ line[Len(line) - 2] = ":"
    /\ IsIdent(line[Len(line) - 1])
    /\ \A i \in 1..(Len(line) - 3) : IF i % 2 = 1 THEN IsIdent(line[i]) ELSE line[i] = ","

\* a line that closes the parameter list and gives the return type
IsProcClosing(line) ==
    /\ Len(line) = 4
    /\ line[1] = ")" /\ line[2] = "->" /\ IsIdent(line[3]) /\ line[4] = "{"

\* the parameters a parameter line declares, in order, each with the type
DeclaredOnLine(line) ==
    LET names == SelectSeq(SubSeq(line, 1, Len(line) - 3), IsIdent)
    IN  [i \in DOMAIN names |-> <<names[i], <<line[Len(line) - 1]>>>>]

RECURSIVE DeclaredParams(_, _, _)
DeclaredParams(lines, from, to) ==
    IF from > to THEN <<>>
    ELSE DeclaredOnLine(lines[from]) \o DeclaredParams(lines, from + 1, to)

\* C20: a text that begins with a procedure declaration whose parameter
\* list spans several lines (the opening line, lines of parameters, the
\* closing line with the return type) is parsed to exactly one Symbol for
\* these lines: a procedure of that name whose params are all declared
\* parameters in order with their types, and whose return type is the text
\* between -> and the opening brace.
C20_MultiLineProc ==
    last.op = "parse_file" =>
        LET lines == last.arg[2]
            syms == last.parsed.symbols
        IN  \A j \in 3..Len(lines) :
               (/\ IsProcOpening(lines[1])
                /\ \A k \in 2..(j - 1) : IsParamLine(lines[k])
                /\ IsProcClosing(lines[j])) =>
                   LET Here(sym) == sym.line <= j
                       found == SelectSeq(syms, Here)
                   IN  /\ Len(found) = 1
                       /\ found[1].kind = "proc"
                       /\ found[1].name = lines[1][1]
                       /\ found[1].params = DeclaredParams(lines, 2, j - 1)
                       /\ found[1].return_type = <<lines[j][3]>>

\* what a type string looked up to, from a file, when the last call was made
LookupThen(type_name, from_file) ==
    lookup_type(last.was.ix, last.was.dirs, type_name, from_file, <<>>).sym

\* C21: resolve_enum_for_type returns nothing or a Symbol of kind enum: the
\* type itself when it is an enum; for a bit-set named type the enum that
\* its recorded underlying name looks up to, and nothing when that name
\* looks up to a symbol that is no enum; nothing for every other type.
C21_EnumOrNothing ==
    last.op = "resolve_enum_for_type" =>
        LET sym == LookupThen(last.arg[1], last.arg[2])
            Under(s) == LookupThen(<<s.underlying_enum>>, last.arg[2])
        IN  /\ last.result = <<>> \/ last.result[1].kind = "enum"
            /\ IF sym # <<>> /\ sym[1].kind = "enum" THEN last.result = sym
               ELSE IF sym # <<>> /\ sym[1].kind = "type" /\ sym[1].underlying_enum # ""
                       /\ Under(sym[1]) # <<>> /\ Under(sym[1])[1].kind = "enum"
               THEN last.result = Under(sym[1])
               ELSE last.result = <<>>

\* C22: every directory find_odin_root returns contains a core and a vendor
\* subdirectory, be it the start folder, one of its ancestors, or the Odin
\* subdirectory of one of them.
C22_RootHasCoreAndVendor ==
    (last.op = "find_odin_root" /\ last.result # <<>>) =>
        /\ join(last.result, <<"core">>) \in last.was.dirs
        /\ join(last.result, <<"vendor">>) \in last.was.dirs

\* the candidate directories of a collection import under the roots of the
\* project folders, of a table of roots, that hold the file
OwnCandidates(filepath, imp, table) ==
    {table[k].root \o <<"/", imp.collection, "/">> \o imp.rel_path :
        k \in {k \in DOMAIN table : IsPrefix(table[k].folder \o <<"/">>, filepath)}}

\* C23: a resolve_import_dir call that resolves a named-collection import of
\* a file returns the candidate directory under the root of the file's own
\* project folder whenever that candidate exists, also when the candidate
\* under another known root exists; another root's candidate is returned
\* only when the own root's does not exist.
C23_OwnRootPreferred ==
    (/\ last.op = "resolve_import_dir"
     /\ last.arg[1] = last.arg[2]
     /\ last.was.imp.collection # ""
     /\ last.was.imp.resolved_dir = <<>>) =>
        LET own == OwnCandidates(last.arg[1], last.was.imp, last.was.table)
                      \cap last.was.dirs
        IN  own # {} => last.result \in own

\* the brackets of one kind that lines from..to of a text leave open
RECURSIVE OpenAfter(_, _, _, _, _)
OpenAfter(lines, from, to, open, close) ==
    IF from > to THEN 0
    ELSE CountTok(lines[to], open) - CountTok(lines[to], close)
            + OpenAfter(lines, from, to - 1, open, close)

\* a line of the form name :: value or name := value
IsDeclLine(line) ==
    Len(line) >= 3 /\ IsIdent(line[1]) /\ line[2] \in {"::", ":="}

\* a procedure declaration with its whole parameter list, whose body is
\* left open
IsProcWithBody(line) ==
    /\ Len(line) >= 6
    /\ IsIdent(line[1])
    /\ SubSeq(line, 2, 4) = <<"::", "proc", "(">>
    /\ line[Len(line)] = "{"
    /\ OpenAfter(<<line>>, 1, 1, "(", ")") = 0
    /\ OpenAfter(<<line>>, 1, 1, "{", "}") = 1

\* C24: symbols are emitted for top-level declarations only: in a text
\* that begins with a procedure whose body is left open, a line of the form
\* name :: value or name := value that comes while the body's braces are
\* still open produces no Symbol.
C24_TopLevelOnly ==
    last.op = "parse_file" =>
        LET lines == last.arg[2]
            syms == last.parsed.symbols
        IN  \A k \in 2..Len(lines) :
               (/\ IsProcWithBody(lines[1])
                /\ \A j \in 1..(k - 1) : OpenAfter(lines, 1, j, "{", "}") > 0
                /\ IsDeclLine(lines[k])) =>
                   \A i \in DOMAIN syms : syms[i].line # k

\* what a line opens at the top level of a file: the mode of the
\* collection, its brackets, and the name and kind of the Symbol of the
\* declaration; mode "None" for a line that opens no collection
Opening(line) ==
    IF /\ Len(line) = 4 /\ IsIdent(line[1]) /\ line[2] = "::"
       /\ line[3] \in {"struct", "enum", "union"} /\ line[4] = "{"
    THEN [mode |-> line[3], open |-> "{", close |-> "}",
          name |-> line[1], kind |-> line[3]]
    ELSE IF /\ Len(line) = 4 /\ IsIdent(line[1]) /\ line[2] = ":="
            /\ IsIdent(line[3]) /\ line[4] = "{"
    THEN [mode |-> "skip_block", open |-> "{", close |-> "}",
          name |-> line[1], kind |-> "var"]
    ELSE IF IsProcOpening(line)
    THEN [mode |-> "proc", open |-> "(", close |-> ")",
          name |-> line[1], kind |-> "proc"]
    ELSE [mode |-> "None", open |-> "", close |-> "", name |-> "", kind |-> ""]

\* the lines after the first on which the brackets of the collection that
\* line 1 opens are back to depth zero
ClosingLines(lines) ==
    {j \in 2..Len(lines) :
        OpenAfter(lines, 1, j, Opening(lines[1]).open, Opening(lines[1]).close) = 0}

\* an import line of the texts
IsImportLine(line) == line # <<>> /\ line[1] = "import"

\* the first of a non-empty set of line numbers
FirstLine(js) == CHOOSE j \in js : \A k \in js : j <= k

\* C25: in a text whose first line opens a collection (struct, enum, union,
\* skip-block or proc), no line up to the first line that brings the
\* collection's bracket depth back to zero is recognised as a package, an
\* import or a declaration; at that line exactly one Symbol, the one of the
\* opening line, has been emitted, and the lines after it are recognised
\* again; when no line brings the depth back to zero the file has no Symbol,
\* no import and no package name.
C25_CollectionEndsAtDepthZero ==
    (last.op = "parse_file" /\ Opening(last.arg[2][1]).mode # "None") =>
        LET lines == last.arg[2]
            parsed == last.parsed
            syms == parsed.symbols
            o == Opening(lines[1])
            Closed(j) ==
                /\ Len(syms) >= 1
                /\ syms[1].name = o.name /\ syms[1].kind = o.kind
                /\ syms[1].line = 1
                /\ \A i \in 2..Len(syms) : syms[i].line > j
                /\ (\A k \in (j + 1)..Len(lines) : lines[k] # <<"package", "h">>)
                      => parsed.package_name = ""
                /\ (\A k \in (j + 1)..Len(lines) : ~IsImportLine(lines[k]))
                      => parsed.imports = <<>>
                /\ (j < Len(lines) /\ lines[j + 1] = <<"package", "h">>)
                      => parsed.package_name = "h"
                /\ (j < Len(lines) /\ IsImportLine(lines[j + 1]))
                      => parsed.imports # <<>>
                /\ (j < Len(lines) /\ IsDeclLine(lines[j + 1])
                       /\ Opening(lines[j + 1]).mode = "None")
                      => \E i \in 2..Len(syms) :
                            syms[i].line = j + 1 /\ syms[i].name = lines[j + 1][1]
        IN  IF ClosingLines(lines) = {}
            THEN syms = <<>> /\ parsed.imports = <<>> /\ parsed.package_name = ""
            ELSE Closed(FirstLine(ClosingLines(lines)))

\* a collection that holds a declaration line was closed, and a declaration
\* followed it
C25_Witness ==
    /\ last.op = "parse_file"
    /\ Opening(last.arg[2][1]).mode # "None"
    /\ ClosingLines(last.arg[2]) = {3}
    /\ IsDeclLine(last.arg[2][2])
    /\ Len(last.arg[2]) = 4 /\ IsDeclLine(last.arg[2][4])
    /\ Len(last.parsed.symbols) = 2

\* a procedure declared on one line whose parameter list is one group of
\* names that share one type of one word
IsGroupedProc(line) ==
    /\ IsProcWithBody(line)
    /\ Len(line) >= 10
    /\ line[Len(line) - 1] = ")"
    /\ IsIdent(line[Len(line) - 2])
    /\ line[Len(line) - 3] = ":"
    /\ \A i \in 5..(Len(line) - 4) :
          IF i % 2 = 1 THEN IsIdent(line[i]) ELSE line[i] = ","

\* the parameters of such a declaration, in order, each with the type
GroupedParams(line) ==
    LET names == SelectSeq(SubSeq(line, 5, Len(line) - 4), IsIdent)
    IN  [i \in DOMAIN names |-> <<names[i], <<line[Len(line) - 2]>>>>]

\* C26: a comma-grouped name list of a parameter list is fanned out against
\* its one type: a text that begins with g :: proc(a, b: int) { is parsed
\* to a procedure whose params are (a, int) and (b, int), in this order, so
\* the count and the index of each parameter are those of the declaration.
C26_GroupedNamesFannedOut ==
    (last.op = "parse_file" /\ IsGroupedProc(last.arg[2][1])) =>
        /\ Len(last.parsed.symbols) >= 1
        /\ last.parsed.symbols[1].kind = "proc"
        /\ last.parsed.symbols[1].params = GroupedParams(last.arg[2][1])

\* C27: every Symbol parse_file emits, of every kind, walrus-declared
\* variables included, has as its column the 1-based position of the first
\* occurrence of its name on the raw line that declares it (positions
\* counted in tokens), so the column is at least 1.
C27_ColumnOfName ==
    last.op = "parse_file" =>
        \A i \in DOMAIN last.parsed.symbols :
            LET sym == last.parsed.symbols[i] IN
            /\ sym.col >= 1
            /\ sym.col = FirstIndex(last.arg[2][sym.line], sym.name)

\* an attribute line that holds the word private
IsPrivateAttr(line) == line # <<>> /\ line[1] = "@" /\ "private" \in Range(line)

\* a line that leaves the pending-private flag as it is: an attribute, a
\* package line, an import, or a line the preprocessor drops
KeepsPending(line) ==
    \/ line = <<>>
    \/ line[1] \in {"@", "package", "import"}

\* C28: the pending-private flag is applied to the next declaration only.
\* For a private attribute on a line of its own at the top level (no
\* collection is opened before it) and a Symbol declared on a later line
\* with no other private attribute between the two: the Symbol is private
\* exactly when no declaration lies between them and every line between
\* them is an attribute, a package line or an import (or is dropped by the
\* preprocessor). So the first declaration after the attribute is private,
\* the second is not, and a line of another form between them clears the
\* flag.
C28_PrivateNextOnly ==
    last.op = "parse_file" =>
        LET lines == last.arg[2]
            syms == last.parsed.symbols
        IN  \A a \in DOMAIN lines : \A i \in DOMAIN syms :
               (/\ IsPrivateAttr(lines[a])
                /\ \A k \in 1..(a - 1) : Opening(lines[k]).mode = "None"
                /\ syms[i].line > a
                /\ \A k \in (a + 1)..(syms[i].line - 1) : ~IsPrivateAttr(lines[k])) =>
                   (syms[i].is_private <=>
                       \A k \in (a + 1)..(syms[i].line - 1) :
                           ~IsDeclLine(lines[k]) /\ KeepsPending(lines[k]))

\* after a private attribute a private Symbol and a Symbol that is not
\* private were declared
C28_Witness ==
    /\ last.op = "parse_file"
    /\ IsPrivateAttr(last.arg[2][1])
    /\ Len(last.parsed.symbols) = 2
    /\ last.parsed.symbols[1].is_private
    /\ ~last.parsed.symbols[2].is_private
    /\ \A k \in DOMAIN last.arg[2] : k > 1 => ~IsPrivateAttr(last.arg[2][k])

\* C29: a walrus declaration whose value leaves a brace open enters
\* skip-block mode. In a text that begins with one, no line of the
\* initializer is parsed as a declaration and, when a line brings the brace
\* depth back to zero, exactly one Symbol belongs to the lines up to it: a
\* variable of the declared name, of line 1, first in the list; as long as
\* no line closes the block, nothing is recorded.
C29_SkipBlockRecordsOnce ==
    (last.op = "parse_file" /\ Opening(last.arg[2][1]).mode = "skip_block") =>
        LET lines == last.arg[2]
            syms == last.parsed.symbols
            Closed(j) ==
                LET UpTo(sym) == sym.line <= j IN
                /\ Len(SelectSeq(syms, UpTo)) = 1
                /\ syms[1].line = 1
                /\ syms[1].kind = "var"
                /\ syms[1].name = lines[1][1]
        IN  IF ClosingLines(lines) = {} THEN syms = <<>>
            ELSE Closed(FirstLine(ClosingLines(lines)))

\* a block that holds a line of the form of a declaration was closed and
\* its variable recorded
C29_Witness ==
    /\ last.op = "parse_file"
    /\ Opening(last.arg[2][1]).mode = "skip_block"
    /\ Len(last.arg[2]) >= 3
    /\ IsDeclLine(last.arg[2][2])
    /\ ClosingLines(last.arg[2]) # {}
    /\ FirstLine(ClosingLines(last.arg[2])) = 3
    /\ Len(last.parsed.symbols) = 1
    /\ last.parsed.symbols[1].kind = "var"

\* a name that no stored symbol has and that is a field of no stored struct
NamesNothing(ix, name) ==
    \A sym \in StoredSymbols(ix) : sym.name # name /\ name \notin DOMAIN sym.fields

\* C30: chain resolution returns no result and does not raise when a hop
\* fails. A chain of more than one segment whose last segment is the name
\* of no symbol of any package and of no field of any struct cannot get
\* through its last hop (the segment is no symbol of the imported package,
\* or no field of the current struct, own or inherited) unless an earlier
\* hop failed already: the call returns None, it does not raise.
C30_FailedHopGivesNothing ==
    (/\ last.op = "_resolve_type_chain"
     /\ Len(last.arg[2]) > 1
     /\ NamesNothing(last.was.ix, last.arg[2][Len(last.arg[2])])) =>
        last.result.kind = "None"

\* whether a block comment is open after the tokens of a line from i on,
\* open telling whether one is open before them: /* opens one where none is
\* open, */ closes the open one (block comments do not nest)
RECURSIVE CommentOpenFrom(_, _, _)
CommentOpenFrom(line, i, open) ==
    IF i > Len(line) THEN open
    ELSE CommentOpenFrom(line, i + 1,
                         IF line[i] = "/*" THEN TRUE
                         ELSE IF line[i] = "*/" THEN FALSE
                         ELSE open)

\* whether a block comment is open after the first n lines of a text
RECURSIVE CommentOpenAfter(_, _)
CommentOpenAfter(lines, n) ==
    IF n = 0 THEN FALSE
    ELSE CommentOpenFrom(lines[n], 1, CommentOpenAfter(lines, n - 1))

\* line k of a text lies in a block comment as a whole: a comment is open
\* after the line before it and the line does not close it
InComment(lines, k) ==
    k > 1 /\ CommentOpenAfter(lines, k - 1) /\ "*/" \notin Range(lines[k])

\* C31: after a line that leaves a block comment open, every following line
\* up to the next */ and the text before that */ yield no package, no
\* import and no declaration: no Symbol is of a line that lies in the
\* comment as a whole; a Symbol of the line that closes the comment is
\* declared after the */; a text whose package lines (import lines) all lie
\* in comments has no package name (no import). With no */ the rest of the
\* file yields nothing, and the symbols found before the comment are
\* returned.
C31_BlockCommentYieldsNothing ==
    last.op = "parse_file" =>
        LET lines == last.arg[2]
            parsed == last.parsed
        IN  /\ \A i \in DOMAIN parsed.symbols :
                  LET k == parsed.symbols[i].line IN
                  /\ ~InComment(lines, k)
                  /\ (k > 1 /\ CommentOpenAfter(lines, k - 1)) =>
                        FirstIndex(lines[k], parsed.symbols[i].name)
                           > FirstIndex(lines[k], "*/")
            /\ (\A k \in DOMAIN lines :
                   lines[k] = <<"package", "h">> => InComment(lines, k))
                  => parsed.package_name = ""
            /\ (\A k \in DOMAIN lines : IsImportLine(lines[k]) => InComment(lines, k))
                  => parsed.imports = <<>>
            /\ \A k \in DOMAIN lines :
                  (/\ lines[k] \in {<<"K", "::", "1">>, <<"x", ":=", "5">>}
                   /\ \A j \in 1..(k - 1) : ~CommentOpenAfter(lines, j)) =>
                      \E i \in DOMAIN parsed.symbols : parsed.symbols[i].line = k

\* C32: every background index pass runs to completion and then resets the
\* indexing flag, also when it raises: under fair scheduling a pass that
\* runs has eventually ended, and whenever the flag is set it is eventually
\* cleared (so that a later request to start a pass is accepted).
C32_FlagEventuallyCleared ==
    /\ \A t \in Threads : (pass[t].pc # "off") ~> (pass[t].pc = "off")
    /\ _indexing ~> ~_indexing

\* a pass that raised has ended and the flag is cleared
C32_Witness ==
    /\ last.op = "do_index"
    /\ last.result = <<"raised">>
    /\ ~_indexing
    /\ \A t \in Threads : pass[t].pc = "off"

\* C33: after plugin_loaded ran over several windows with project folders,
\* every source file of every window's folders is eventually in the index
\* (behaviours in which the reindex command cleared the index meanwhile are
\* left aside).
C33_EveryWindowIndexed ==
    (caller["loader"].k > 0) ~>
        \/ caller["ui"].reindexes > 0
        \/ \A k \in DOMAIN Windows : \A i \in DOMAIN folders(Windows[k]) :
              WalkFiles(folders(Windows[k])[i]) \subseteq DOMAIN _index.file_syms

\* the places (file, position) of the per-file symbol lists
FilePlaces(ix) ==
    UNION {{f} \X DOMAIN ix.file_syms[f] : f \in DOMAIN ix.file_syms}

\* how often sym is in the list lst, and in the per-file lists
TimesIn(lst, sym) == Cardinality({i \in DOMAIN lst : lst[i] = sym})

TimesInFiles(ix, sym) ==
    Cardinality({p \in FilePlaces(ix) : ix.file_syms[p[1]][p[2]] = sym})

\* C34: when no call is running, symbols_by_name(n) holds, for every name n,
\* exactly the symbols named n of the per-file lists of the indexed files,
\* each as often as the per-file lists hold it.
C34_ByNameAgreesWithFiles ==
    Quiet =>
        \A n \in DOMAIN _index.by_name \cup
                 UNION {SymNames(_index.file_syms[f]) : f \in DOMAIN _index.file_syms} :
            LET held == get_symbols_by_name(_index, n)
                ofFiles == {_index.file_syms[p[1]][p[2]] : p \in FilePlaces(_index)}
            IN  /\ \A i \in DOMAIN held : held[i].name = n
                /\ \A sym \in Range(held) \cup {s \in ofFiles : s.name = n} :
                      TimesIn(held, sym) = TimesInFiles(_index, sym)

\* two indexed files declare S, and a name that was declared is gone
C34_Witness ==
    /\ Quiet
    /\ \E i, j \in DOMAIN get_symbols_by_name(_index, "S") :
          get_symbols_by_name(_index, "S")[i].file # get_symbols_by_name(_index, "S")[j].file
    /\ \E n \in DOMAIN _index.by_name : _index.by_name[n] = <<>>

\* C35: when no call is running and an indexed file of package directory P
\* declares name N, symbols_in_package(P) has an entry for N; removing or
\* re-indexing another file that declared N too does not hide it.
C35_PackageShowsDeclared ==
    Quiet =>
        \A p \in FilePlaces(_index) :
            LET sym == _index.file_syms[p[1]][p[2]] IN
            sym.name \in DOMAIN get_package_symbols(_index, sym.package_dir)

\* C36: when no call is running, every Symbol of symbols_in_package is in
\* the per-file symbol list of an indexed file: the by-package store holds no
\* symbol of a removed file or of an earlier version of a file.
C36_PackageHoldsIndexedOnly ==
    Quiet =>
        \A d \in DOMAIN _index.by_pkg :
            \A n \in DOMAIN get_package_symbols(_index, d) :
                TimesInFiles(_index, get_package_symbols(_index, d)[n]) > 0

\* a file was removed from a directory whose by-package dict still holds
\* symbols of another file
C36_Witness ==
    /\ Quiet
    /\ last.op = "remove_file"
    /\ last.arg \notin DOMAIN _index.file_syms
    /\ dirname(last.arg) \in DOMAIN _index.by_pkg
    /\ DOMAIN _index.by_pkg[dirname(last.arg)] # {}

\* the symbols of a by-name list that belong to another file than filepath
OfOthers(lst, filepath) ==
    LET Other(sym) == sym.file # filepath IN SelectSeq(lst, Other)

\* the per-file lists of d without those of filepath
Without(d, filepath) == [f \in (DOMAIN d) \ {filepath} |-> d[f]]

\* C38: index_file(F) and remove_file(F) leave the per-file symbol lists and
\* the per-file import lists of every other file as they were, and leave in
\* the by-name lists every symbol of another file.
C38_OtherFilesUntouched ==
    \A t \in Threads :
        (Returned(t, "index_file") \/ Returned(t, "remove_file")) =>
            LET fp == th[t].filepath
                was == th[t].before
            IN  /\ Without(_index.file_syms, fp) = Without(was.file_syms, fp)
                /\ Without(_index.file_imports, fp) = Without(was.file_imports, fp)
                /\ \A n \in DOMAIN was.by_name \cup DOMAIN _index.by_name :
                      OfOthers(get_symbols_by_name(_index, n), fp) =
                          OfOthers(get_symbols_by_name(was, n), fp)

\* remove_file has returned for an indexed file, and another indexed file
\* with imports declares one of its names
C38_Witness ==
    \E t \in Threads :
        /\ Returned(t, "remove_file")
        /\ th[t].filepath \in DOMAIN th[t].before.file_syms
        /\ \E f \in DOMAIN _index.file_syms :
              /\ _index.file_imports[f] # <<>>
              /\ SymNames(_index.file_syms[f])
                    \cap SymNames(th[t].before.file_syms[th[t].filepath]) # {}

\* two index_file calls on one path with different contents have both
\* left their with block
BothIndexed(t, u) ==
    /\ t # u
    /\ Returned(t, "index_file") /\ Returned(u, "index_file")
    /\ th[t].filepath = th[u].filepath
    /\ th[t].parsed # th[u].parsed

\* the index holds for filepath exactly what was parsed, in all four stores
\* (the directory an import was resolved to, which a query caches in the
\* stored import, left aside)
HoldsExactly(ix, filepath, parsed) ==
    /\ filepath \in DOMAIN ix.file_syms
    /\ ix.file_syms[filepath] = parsed.symbols
    /\ filepath \in DOMAIN ix.file_imports
    /\ StoredObjects(ix).file_imports[filepath] = parsed.imports
    /\ \A n \in DOMAIN ix.by_name \cup SymNames(parsed.symbols) :
          OfFileSeq(get_symbols_by_name(ix, n), filepath) = Named(parsed.symbols, n)
    /\ \A d \in DOMAIN ix.by_pkg :
          OfFileDict(ix.by_pkg[d], filepath) =
              IF d = dirname(filepath) THEN LastDeclared(parsed.symbols) ELSE EmptyDict
    /\ parsed.symbols # <<>> => dirname(filepath) \in DOMAIN ix.by_pkg

\* the two calls are the only calls made so far, and the call of t took the
\* lock second: it found the path indexed
RanSecond(t, u) ==
    /\ calls = 2
    /\ th[t].filepath \in DOMAIN th[t].before.file_syms

\* C37: when two concurrent index_file calls on one path with different
\* contents have both finished, the index holds for the path exactly what
\* one of the two has parsed, in the by-name, by-package and per-file stores
\* alike, and nothing of the other content; with no call but these two, it
\* is what the call that took the lock last has parsed.
C37_LastWriterWins ==
    \A t, u \in Threads :
        BothIndexed(t, u) =>
            /\ \/ HoldsExactly(_index, th[t].filepath, th[t].parsed)
               \/ HoldsExactly(_index, th[u].filepath, th[u].parsed)
            /\ RanSecond(t, u) => HoldsExactly(_index, th[t].filepath, th[t].parsed)

\* both calls have finished, both contents declare symbols, and the second
\* parsed its content before the first took the lock
C37_Witness ==
    \E t, u \in Threads :
        /\ BothIndexed(t, u)
        /\ RanSecond(t, u)
        /\ th[t].parsed.symbols # <<>> /\ th[u].parsed.symbols # <<>>
        /\ SymNames(th[t].parsed.symbols) \cap SymNames(th[u].parsed.symbols) # {}
        /\ th[u].parsed.imports # <<>>

\* C39: the index lock never blocks for ever: under fair scheduling every
\* thread that has called index_file (which takes the lock and takes it
\* again in remove_file), remove_file or clear eventually returns.
C39_EveryCallReturns ==
    \A t \in Threads : (th[t].pc \notin {"idle", "done"}) ~> (th[t].pc = "done")

\* index_file has returned on one thread, and remove_file or clear, which
\* ran after it on a file it indexed, on the other
C39_Witness ==
    \E t, u \in Threads :
        /\ Returned(t, "index_file")
        /\ Returned(u, "remove_file") \/ Returned(u, "clear")
        /\ th[t].filepath \in DOMAIN th[u].before.file_syms
        /\ th[t].parsed.symbols # <<>>

====
